---- MODULE Spec2Model ----
(***************************************************************************)
(* The MCP React client as state machines over one set of variables:       *)
(*                                                                         *)
(*   Spec         the three LLM provider adapters (AnthropicService,       *)
(*                OpenAIService, OllamaService): sendMessage, updateTools, *)
(*                clearHistory;                                            *)
(*   FactorySpec  LLMServiceFactory.create called with any config;         *)
(*   AppSpec      App with ConnectionManager and HttpMcpClient: connect,   *)
(*                disconnect, and the tool calls of the adapters it made;  *)
(*   ChatSpec     ChatInterface with its llmService prop;                  *)
(*   HistorySpec  the sendMessage calls of the adapters with a caller of   *)
(*                getConversationHistory that changes the array it gets;   *)
(*   LanguageSpec App with its language select: connect, disconnect and    *)
(*                HttpMcpClient.setLanguage;                               *)
(*   SocketSpec   one WebSocketMcpClient: connect, disconnect, callTool,   *)
(*                the events of its sockets and the request timers;        *)
(*   SocketFairSpec  SocketSpec in which every request timer fires.        *)
(*                                                                         *)
(* Each specification moves its own variables and leaves the others at     *)
(* their initial values.                                                   *)
(*                                                                         *)
(* An async method runs atomically from one await to the next, so every    *)
(* action below is one such run: it starts where a promise settles (or     *)
(* where the caller invokes the method) and ends where the next await      *)
(* suspends the method, or where it returns or throws.                     *)
(*                                                                         *)
(* Texts are sequences of tokens.  A JSON text is a sequence of the tokens *)
(* "{", "}", ",", keys ("tool_name:", "parameters:", "message:") and       *)
(* scalars; anything else is prose.                                        *)
(***************************************************************************)
EXTENDS Integers, Sequences, FiniteSets, TLC

\* ------------------------------------------------------------------ bounds
MaxSends == 2      \* sendMessage calls in one behaviour
MaxCalls == 2      \* tool calls the model puts in one response
MaxConnects == 2   \* HttpMcpClient instances the App creates
MaxMessages == 7   \* chat messages the ChatInterface shows

\* --------------------------------------------------------------- utilities
Min(S) == CHOOSE x \in S : \A y \in S : x <= y
Max(S) == CHOOSE x \in S : \A y \in S : x >= y

RECURSIVE Concat(_)
Concat(ss) == IF ss = <<>> THEN <<>> ELSE Head(ss) \o Concat(Tail(ss))

Range(s) == {s[i] : i \in 1..Len(s)}

\* ------------------------------------------------------ JSON text and values
Keys    == {"tool_name:", "parameters:", "message:"}
Scalars == {"echo", "hi", "null"}

JStr(s)  == [kind |-> "str",  v |-> s,  m |-> <<>>]
JNull    == [kind |-> "null", v |-> "", m |-> <<>>]
JObj(ms) == [kind |-> "obj",  v |-> "", m |-> ms]

\* members of an object: a sequence of <<key, value>>, a repeated key
\* overwrites the earlier one
Put(ms, k, val) ==
    IF \E i \in 1..Len(ms) : ms[i][1] = k
    THEN [i \in 1..Len(ms) |-> IF ms[i][1] = k THEN <<k, val>> ELSE ms[i]]
    ELSE Append(ms, <<k, val>>)

HasKey(val, k) == val.kind = "obj" /\ \E i \in 1..Len(val.m) : val.m[i][1] = k
Get(val, k)    == LET i == CHOOSE j \in 1..Len(val.m) : val.m[j][1] = k
                  IN  val.m[i][2]

\* JavaScript truthiness of a parsed value
Truthy(val) == val.kind = "obj" \/ (val.kind = "str" /\ val.v # "")

ParseFail == [ok |-> FALSE, val |-> JNull, next |-> 0]

RECURSIVE ParseValue(_, _), ParseMembers(_, _, _)
ParseValue(t, i) ==
    IF i > Len(t) THEN ParseFail
    ELSE IF t[i] = "{" THEN
        IF i + 1 <= Len(t) /\ t[i + 1] = "}"
        THEN [ok |-> TRUE, val |-> JObj(<<>>), next |-> i + 2]
        ELSE ParseMembers(t, i + 1, <<>>)
    ELSE IF t[i] \in Scalars THEN
        [ok |-> TRUE,
         val |-> IF t[i] = "null" THEN JNull ELSE JStr(t[i]),
         next |-> i + 1]
    ELSE ParseFail

ParseMembers(t, i, acc) ==
    IF i > Len(t) \/ t[i] \notin Keys THEN ParseFail
    ELSE LET r == ParseValue(t, i + 1) IN
         IF ~r.ok THEN ParseFail
         ELSE LET acc2 == Put(acc, t[i], r.val)
                  j    == r.next
              IN  IF j > Len(t) THEN ParseFail
                  ELSE IF t[j] = "}" THEN
                      [ok |-> TRUE, val |-> JObj(acc2), next |-> j + 1]
                  ELSE IF t[j] = "," THEN ParseMembers(t, j + 1, acc2)
                  ELSE ParseFail

\* JSON.parse: the whole text must be one value; ok = FALSE is the
\* SyntaxError it throws
JSONParse(t) ==
    LET r == ParseValue(t, 1)
    IN  IF r.ok /\ r.next = Len(t) + 1
        THEN [ok |-> TRUE, val |-> r.val]
        ELSE [ok |-> FALSE, val |-> JNull]

\* response.match(/\{[\s\S]*?\}/): from the first "{" to the first "}"
\* after it (the quantifier is lazy); <<>> when there is no match
JsonMatch(response) ==
    LET opens == {i \in 1..Len(response) : response[i] = "{"}
    IN  IF opens = {} THEN <<>>
        ELSE LET i      == Min(opens)
                 closes == {j \in i + 1..Len(response) : response[j] = "}"}
             IN  IF closes = {} THEN <<>>
                 ELSE SubSeq(response, i, Min(closes))

NoToolCall == [found |-> FALSE, name |-> JNull, parameters |-> JNull]

extractToolCallLoose(response) ==
    LET jsonStr == JsonMatch(response)
        parsed  == JSONParse(jsonStr)
    IN  IF jsonStr # <<>> /\ parsed.ok /\ parsed.val.kind # "null"
           /\ HasKey(parsed.val, "tool_name:")
           /\ Truthy(Get(parsed.val, "tool_name:"))
           /\ HasKey(parsed.val, "parameters:")
           /\ Truthy(Get(parsed.val, "parameters:"))
        THEN [found |-> TRUE,
              name |-> Get(parsed.val, "tool_name:"),
              parameters |-> Get(parsed.val, "parameters:")]
        ELSE IF jsonStr = <<>>
        THEN [found |-> TRUE, name |-> JStr("echo"), parameters |-> JObj(<<>>)]
        ELSE NoToolCall

extractToolNameOnly(response) ==
    LET jsonStr == JsonMatch(response)
        parsed  == JSONParse(jsonStr)
    IN  IF jsonStr = <<>> THEN NoToolCall
        ELSE IF ~parsed.ok THEN NoToolCall
        ELSE IF parsed.val.kind = "null" THEN NoToolCall
        ELSE IF HasKey(parsed.val, "tool_name:")
                /\ Truthy(Get(parsed.val, "tool_name:"))
        THEN [found |-> TRUE,
              name |-> Get(parsed.val, "tool_name:"),
              parameters |-> IF HasKey(parsed.val, "parameters:")
                             THEN Get(parsed.val, "parameters:") ELSE JNull]
        ELSE NoToolCall

\* OllamaService.extractToolCall
extractToolCall(response) ==
    LET jsonStr == JsonMatch(response)
        parsed  == JSONParse(jsonStr)
    IN  IF jsonStr = <<>> THEN NoToolCall
        ELSE IF ~parsed.ok THEN NoToolCall
        ELSE IF parsed.val.kind = "null" THEN NoToolCall
        ELSE IF HasKey(parsed.val, "tool_name:")
                /\ Truthy(Get(parsed.val, "tool_name:"))
                /\ HasKey(parsed.val, "parameters:")
                /\ Truthy(Get(parsed.val, "parameters:"))
        THEN [found |-> TRUE,
              name |-> Get(parsed.val, "tool_name:"),
              parameters |-> Get(parsed.val, "parameters:")]
        ELSE NoToolCall


\* --------------------------------------------------------------- the state
VARIABLES
    \* one adapter (AnthropicService, OpenAIService or OllamaService)
    provider,             \* config.provider of the active adapter
    conversationHistory,  \* this.conversationHistory
    tools,                \* this.tools
    pc,                   \* where sendMessage is suspended
    response,             \* the tool calls handleToolUse/handleToolCalls/handleToolCall iterates
    idx,                  \* next position of the for loop over them
    inFlight,             \* positions whose mcpClient.callTool promise is pending
    toolResults,          \* the local toolResults array
    sends,                \* sendMessage calls started so far
    outcome,              \* how the last sendMessage ended
    sent,                 \* messages of the last request to a hosted model,
                          \* prompt of the last sendMessage request to Ollama
    trace,                \* what the current sendMessage has done so far
    \* App, ConnectionManager and the HttpMcpClient instances
    connectionStatus,     \* App: connectionStatus
    mcpClient,            \* App: mcpClient, 0 is null, else a position in clients
    clients,              \* the HttpMcpClient instances: connected, tools
    llmService,           \* App: llmService, the prop of ChatInterface
    llmConfig,            \* the LLMConfig handed to onConnect and to the factory
    attempt,              \* what the current connect attempt has done so far
    sending,              \* clients of the adapters with a sendMessage in flight
    callState,            \* per client, how its last callTool went
    histories,            \* per client, conversationHistory of the adapter made for it
    selectedLanguage,     \* App: selectedLanguage
    refreshing,           \* clients whose setLanguage started a fetch of the tools
    \* ChatInterface
    inputValue,           \* the text field
    isLoading,
    messages,             \* the ChatMessage list, as <<type, content>>
    submit,               \* what the last handleSubmit did
    inFlightSends,        \* llmService.sendMessage calls of the chat not yet settled
    \* a caller of getConversationHistory
    returned,             \* the array it was given, after it changed it
    \* one WebSocketMcpClient instance
    ws,                   \* this.ws: 0 is null, else a position in sockets
    sockets,              \* readyState of the WebSocket objects it created
    connected,            \* this.connected
    socketTools,          \* this.tools
    messageId,            \* this.messageId
    pendingRequests,      \* keys of this.pendingRequests
    requests,             \* the promises sendRequest returned, in issue order
    connectPc,            \* where connect() is suspended
    awaited,              \* the request connect() awaits, 0 if none
    lastMessage           \* the message event delivered last

adapterVars == <<provider, conversationHistory, tools, pc, response, idx,
                 inFlight, toolResults, sends, outcome, sent, trace>>
appVars     == <<connectionStatus, mcpClient, clients, llmService, llmConfig,
                 attempt, sending, callState, histories, selectedLanguage,
                 refreshing>>
chatVars    == <<inputValue, isLoading, messages, submit, inFlightSends>>

callerVars  == <<returned>>
socketVars  == <<ws, sockets, connected, socketTools, messageId,
                 pendingRequests, requests, connectPc, awaited, lastMessage>>

vars == <<adapterVars, appVars, chatVars, callerVars, socketVars>>

Providers == {"anthropic", "openai", "ollama"}

\* The provider issues an id per tool call that is new to the conversation:
\* the least number above every id in the history, in the tool calls being
\* executed and in their results.
IdsOf(turns) ==
    IF provider = "anthropic"
    THEN UNION {{turns[i].content[j].id : j \in 1..Len(turns[i].content)} :
                  i \in 1..Len(turns)}
    ELSE IF provider = "openai"
    THEN UNION {{turns[i].tool_call_id}
                  \cup {turns[i].tool_calls[j].id : j \in 1..Len(turns[i].tool_calls)} :
                  i \in 1..Len(turns)}
    ELSE {}

FreshId ==
    1 + Max({0} \cup IdsOf(conversationHistory)
                \cup {response[i].id : i \in 1..Len(response)}
                \cup (IF provider = "openai" THEN IdsOf(toolResults) ELSE {}))

Question == <<"q">>        \* the user's message
Answer   == <<"a">>        \* a text the model answers with
Value    == <<"value">>    \* JSON.stringify(result, null, 2)
ErrorText == <<"Error calling tool">>

NoOutcome      == [kind |-> "none",     text |-> <<>>]
Returned(text) == [kind |-> "returned", text |-> text]
Threw          == [kind |-> "threw",    text |-> <<>>]

\* bookkeeping of one sendMessage call
NewTrace ==
    [requests    |-> 0,        \* model requests issued
     payload     |-> <<>>,     \* the tool descriptions the last of them carried
     gateway     |-> <<>>,     \* mcpClient.callTool invocations, in issue order
     first       |-> <<>>,     \* the first response: its blocks, tool calls or text
     appended    |-> {},       \* ids of the tool calls this call pushed to the history
     answerFrom  |-> "none",   \* "first", "followUp" or "catch"
     answerTools |-> FALSE,    \* the answer's response carries tool calls
     toolErrors  |-> 0,        \* per-tool-call errors
     gwFailed    |-> FALSE,    \* callTool returned success = false
     modelFailed |-> FALSE,    \* a model request failed
     failure     |-> "none",   \* what the provider reported when it failed
     noText      |-> FALSE]    \* a model response carried no text where one is read

\* how a callTool promise settles: "ok" is {success: true, result}, "fail"
\* is {success: false, error}, "throw" is a rejection
ToolOutcomes == {"ok", "fail", "throw"}

RECURSIVE Ascending(_)
Ascending(S) == IF S = {} THEN <<>>
                ELSE <<Min(S)>> \o Ascending(S \ {Min(S)})

Invocation(call, arguments) ==
    [id |-> call.id, name |-> call.name, arguments |-> arguments]

\* ------------------------------------------------------- the tool registry
\* McpTool: name, description, inputSchema {type, properties, required};
\* a property is its name with its schema's type and description ("" is
\* no description)
Property(name, type, description) ==
    [name |-> name, type |-> type, description |-> description]

McpTool(name, description, properties, required) ==
    [name |-> name, description |-> description,
     inputSchema |-> [type |-> "object", properties |-> properties,
                      required |-> required]]

LanguageProperty ==
    Property("language", "string", "Language for the response (en/es)")

\* the two tools HttpMcpClient.fetchAvailableTools stores
GetCats == McpTool("GetCats", "Get all cats", <<LanguageProperty>>, <<>>)
GetCat  == McpTool("GetCat", "Get a cat by name",
               <<Property("name", "string", "The name of the cat to get details for"),
                 LanguageProperty>>,
               <<"name">>)
CatTools == <<GetCats, GetCat>>

\* SupportedLanguage
Languages == {"en", "es"}

\* getTranslation(language, key) of the two tool descriptions
getTranslation(language, key) ==
    IF language = "en"
    THEN IF key = "getCatsDescription" THEN GetCats.description
         ELSE GetCat.description
    ELSE IF key = "getCatsDescription" THEN "Obtener todos los gatos"
         ELSE "Obtener un gato por nombre"

\* the array HttpMcpClient.fetchAvailableTools assigns to this.tools
fetchAvailableTools(language) ==
    <<[GetCats EXCEPT !.description = getTranslation(language, "getCatsDescription")],
      [GetCat EXCEPT !.description = getTranslation(language, "getCatDescription")]>>

\* a tool of another server
EchoTool == McpTool("echo", "Echo a message",
                <<Property("message", "string", "")>>, <<"message">>)

\* the descriptors updateTools([D]) is called with
Descriptors == {EchoTool, GetCat}

\* AnthropicService.convertToolsToAnthropicFormat
convertToolsToAnthropicFormat(mcpTools) ==
    [i \in 1..Len(mcpTools) |->
        [name |-> mcpTools[i].name,
         description |-> mcpTools[i].description,
         input_schema |-> [type |-> "object",
                           properties |-> mcpTools[i].inputSchema.properties,
                           required |-> mcpTools[i].inputSchema.required]]]

\* OpenAIService.convertToolsToOpenAIFormat
convertToolsToOpenAIFormat(mcpTools) ==
    [i \in 1..Len(mcpTools) |->
        [type |-> "function",
         function |-> [name |-> mcpTools[i].name,
                       description |-> mcpTools[i].description,
                       parameters |-> mcpTools[i].inputSchema]]]

\* array.join(sep) of token sequences
RECURSIVE Join(_, _)
Join(ss, sep) ==
    IF ss = <<>> THEN <<>>
    ELSE IF Len(ss) = 1 THEN ss[1]
    ELSE ss[1] \o <<sep>> \o Join(Tail(ss), sep)

\* `${name}: ${schema.description || schema.type}` joined by ', '
ParamsText(tool) ==
    LET ps == tool.inputSchema.properties IN
    Join([i \in 1..Len(ps) |->
             <<ps[i].name, ":",
               IF ps[i].description # "" THEN ps[i].description ELSE ps[i].type>>],
         ",")

\* `- ${tool.name}: ${tool.description}. Parameters: ${params}`
ToolLine(tool) ==
    <<"-", tool.name, ":", tool.description, ". Parameters:">> \o ParamsText(tool)

PlainPreamble == <<"You are a helpful AI assistant.">>

\* OllamaService.buildSystemPrompt
buildSystemPrompt(mcpTools) ==
    IF Len(mcpTools) = 0 THEN PlainPreamble
    ELSE <<"You are a helpful AI assistant with access to the following tools:">>
         \o Join([i \in 1..Len(mcpTools) |-> ToolLine(mcpTools[i])], "\n")
         \o <<"When you need to use a tool, respond with a JSON object in this exact format:">>
         \o <<"{", "tool_name:", "tool_name_here", ",", "parameters:", "{", "}", "}">>
         \o <<"If you don't need to use a tool, respond normally with text.">>

\* ------------------------------------------------------- AnthropicService
EchoInput == JObj(<< <<"message:", JStr("hi")>> >>)

TextBlock(t) ==
    [type |-> "text", text |-> t, id |-> 0, name |-> "",
     input |-> JNull, is_error |-> FALSE]
ToolUse(id) ==
    [type |-> "tool_use", text |-> <<>>, id |-> id, name |-> "echo",
     input |-> EchoInput, is_error |-> FALSE]
ToolResultBlock(id, t, err) ==
    [type |-> "tool_result", text |-> t, id |-> id, name |-> "",
     input |-> JNull, is_error |-> err]

Turn(role, content) == [role |-> role, content |-> content]

\* the content arrays Claude may answer with: no block, one text block,
\* one tool_use block, or a text block followed by n >= 2 tool_use blocks
AnthropicResponses(base) ==
    {<<>>, <<TextBlock(Answer)>>}
    \cup {(IF n = 1 THEN <<>> ELSE <<TextBlock(Answer)>>)
            \o [i \in 1..n |-> ToolUse(base + i - 1)] : n \in 1..MaxCalls}

ToolUseOnlyFirst(content) ==
    LET all == {i \in 1..Len(content) : content[i].type = "tool_use"}
    IN  IF all = {} THEN {} ELSE {Min(all)}

\* positions of the blocks with content.type === 'tool_use'
ToolUseIndexes(content) ==
    {i \in 1..Len(content) : content[i].type = "tool_use"}

\* response.content.some(content => content.type === 'tool_use')
HasToolUse(content) == \E i \in 1..Len(content) : content[i].type = "tool_use"

TextOrPlaceholder(content) ==
    LET text == Concat([i \in 1..Len(content) |->
                          IF content[i].type = "text" THEN content[i].text ELSE <<>>])
    IN  IF text = <<>> THEN <<"(no response)">> ELSE text

\* filter(type === 'text').map(text).join('')
TextOf(content) ==
    Concat([i \in 1..Len(content) |->
              IF content[i].type = "text" THEN content[i].text ELSE <<>>])

AnthropicFanOut(content, from) ==
    {i \in ToolUseIndexes(content) : i >= from}

\* for (const content of response.content) { ... await callTool ... }:
\* the calls issued when the loop runs on from position `from`
AnthropicNextCalls(content, from) ==
    LET rest == {i \in ToolUseIndexes(content) : i >= from}
    IN  IF rest = {} THEN {} ELSE {Min(rest)}

AnthropicIssue(content, calls) ==
    [i \in 1..Cardinality(calls) |->
        Invocation(content[Ascending(calls)[i]], content[Ascending(calls)[i]].input)]

AnthropicSendMessage(message) ==
    /\ provider = "anthropic" /\ pc = "idle" /\ sends < MaxSends
    /\ conversationHistory' =
           Append(conversationHistory, Turn("user", <<TextBlock(message)>>))
    /\ sent' = conversationHistory'
    /\ trace' = [NewTrace EXCEPT
           !.requests = 1,
           !.payload = convertToolsToAnthropicFormat(tools)]
    /\ pc' = "request"
    /\ sends' = sends + 1
    /\ outcome' = NoOutcome
    /\ UNCHANGED <<provider, response, idx, inFlight, toolResults>>
    /\ UNCHANGED <<tools, appVars, chatVars, callerVars, socketVars>>

\* the catch of sendMessage: throw new LLMError(...)
AnthropicRequestFails ==
    /\ provider = "anthropic" /\ pc \in {"request", "followUp"}
    /\ trace' = [trace EXCEPT !.modelFailed = TRUE]
    /\ outcome' = Threw
    /\ pc' = "idle"
    /\ response' = <<>> /\ idx' = 1 /\ toolResults' = <<>>
    /\ UNCHANGED <<provider, conversationHistory, inFlight, sends, sent>>
    /\ UNCHANGED <<tools, appVars, chatVars, callerVars, socketVars>>

AnthropicResponse ==
    /\ provider = "anthropic" /\ pc = "request"
    /\ \E content \in AnthropicResponses(FreshId) :
        /\ conversationHistory' =
               Append(conversationHistory, Turn("assistant", content))
        /\ IF HasToolUse(content)
           THEN \* handleToolUse up to the first await
                LET calls == AnthropicNextCalls(content, 1) IN
                /\ response' = content
                /\ toolResults' = <<>>
                /\ inFlight' = calls
                /\ idx' = Max(calls) + 1
                /\ trace' = [trace EXCEPT
                       !.first = content,
                       !.appended = {content[i].id : i \in ToolUseIndexes(content)},
                       !.gateway = @ \o AnthropicIssue(content, calls)]
                /\ pc' = "tools"
                /\ UNCHANGED outcome
           ELSE /\ outcome' = Returned(TextOf(content))
                /\ trace' = [trace EXCEPT !.answerFrom = "first",
                                          !.noText = (TextOf(content) = <<>>)]
                /\ pc' = "idle"
                /\ UNCHANGED <<response, toolResults, inFlight, idx>>
    /\ UNCHANGED <<provider, sends, sent>>
    /\ UNCHANGED <<tools, appVars, chatVars, callerVars, socketVars>>

\* a callTool promise settles: "ok" is {success: true}, "fail" is
\* {success: false, error}, "throw" is a rejected promise
AnthropicToolSettles ==
    /\ provider = "anthropic" /\ pc = "tools"
    /\ \E k \in inFlight, result \in ToolOutcomes :
       LET block   == response[k]
           results == Append(toolResults,
                         IF result = "ok"
                         THEN ToolResultBlock(block.id, Value, FALSE)
                         ELSE ToolResultBlock(block.id, ErrorText, TRUE))
           pending == inFlight \ {k}
           calls   == AnthropicNextCalls(response, idx)
           tr      == [trace EXCEPT
                          !.toolErrors = IF result = "ok" THEN @ ELSE @ + 1,
                          !.gwFailed = @ \/ result = "fail"]
       IN  /\ toolResults' = results
           /\ IF pending # {}
              THEN /\ inFlight' = pending
                   /\ trace' = tr
                   /\ UNCHANGED <<conversationHistory, idx, pc, sent>>
              ELSE IF calls # {}
              THEN /\ inFlight' = calls
                   /\ idx' = Max(calls) + 1
                   /\ trace' = [tr EXCEPT
                          !.gateway = @ \o AnthropicIssue(response, calls)]
                   /\ UNCHANGED <<conversationHistory, pc, sent>>
              ELSE \* the loop is over: push the results, re-query
                   /\ inFlight' = {}
                   /\ conversationHistory' =
                          Append(conversationHistory, Turn("user", results))
                   /\ sent' = conversationHistory'
                   /\ trace' = [tr EXCEPT
                          !.requests = @ + 1,
                          !.payload = convertToolsToAnthropicFormat(tools)]
                   /\ pc' = "followUp"
                   /\ UNCHANGED idx
    /\ UNCHANGED <<provider, response, sends, outcome>>
    /\ UNCHANGED <<tools, appVars, chatVars, callerVars, socketVars>>

AnthropicFollowUp ==
    /\ provider = "anthropic" /\ pc = "followUp"
    /\ \E content \in AnthropicResponses(FreshId) :
        /\ conversationHistory' =
               Append(conversationHistory, Turn("assistant", content))
        /\ outcome' = Returned(TextOf(content))
        /\ trace' = [trace EXCEPT !.answerFrom = "followUp",
                                  !.answerTools = HasToolUse(content),
                                  !.appended = @ \cup
                                      {content[i].id : i \in ToolUseIndexes(content)},
                                  !.noText = (TextOf(content) = <<>>)]
    /\ pc' = "idle"
    /\ response' = <<>> /\ idx' = 1 /\ toolResults' = <<>>
    /\ UNCHANGED <<provider, inFlight, sends, sent>>
    /\ UNCHANGED <<tools, appVars, chatVars, callerVars, socketVars>>

\* ---------------------------------------------------------- OpenAIService
GoodArgs == <<"{", "message:", "hi", "}">>      \* {"message":"hi"}
BadArgs  == <<"{", "message:", "hi">>           \* cut off: {"message":"hi"

ToolCall(id, arguments) ==
    [id |-> id, name |-> "echo", arguments |-> arguments]

Message(role, content, tool_calls, tool_call_id) ==
    [role |-> role, content |-> content, tool_calls |-> tool_calls,
     tool_call_id |-> tool_call_id]

OpenAIToolCalls(n, bad, base) ==
    [i \in 1..n |-> ToolCall(base + i - 1, IF i \in bad THEN BadArgs ELSE GoodArgs)]

\* response.choices[0]: absent, or a message with a content (<<>> is null)
\* and a list of tool calls whose argument strings parse or do not
OpenAIResponses(base) ==
    {[choice |-> FALSE, content |-> <<>>, tool_calls |-> <<>>],
     [choice |-> TRUE,  content |-> Answer, tool_calls |-> <<>>],
     [choice |-> TRUE,  content |-> <<>>,   tool_calls |-> <<>>],
     [choice |-> TRUE,  content |-> Answer, tool_calls |-> OpenAIToolCalls(1, {}, base)]}
    \cup {[choice |-> TRUE, content |-> <<>>, tool_calls |-> OpenAIToolCalls(n, bad, base)] :
            n \in 1..MaxCalls, bad \in {{}, {1}, {MaxCalls}}}

ArgsAlwaysParse(toolCall) == TRUE

\* JSON.parse(toolCall.function.arguments) does not throw
ArgsParse(toolCall) == JSONParse(toolCall.arguments).ok

OpenAIFanOut(tool_calls, from) ==
    {i \in from..Len(tool_calls) : ArgsParse(tool_calls[i])}

\* for (const toolCall of message.tool_calls) { ... await callTool ... }:
\* the calls issued when the loop runs on from position `from`
OpenAINextCalls(tool_calls, from) ==
    LET rest == {i \in from..Len(tool_calls) : ArgsParse(tool_calls[i])}
    IN  IF rest = {} THEN {} ELSE {Min(rest)}

ToolMessage(id, content) == Message("tool", content, <<>>, id)

\* the catch branch for the calls at from..to whose arguments do not parse
OpenAIParseErrors(tool_calls, from, to) ==
    LET bad == {i \in from..to : ~ArgsParse(tool_calls[i])}
    IN  [i \in 1..Cardinality(bad) |->
            ToolMessage(tool_calls[Ascending(bad)[i]].id, ErrorText)]

OpenAIIssue(tool_calls, calls) ==
    [i \in 1..Cardinality(calls) |->
        Invocation(tool_calls[Ascending(calls)[i]],
                   JSONParse(tool_calls[Ascending(calls)[i]].arguments).val)]

OpenAISendMessage(message) ==
    /\ provider = "openai" /\ pc = "idle" /\ sends < MaxSends
    /\ conversationHistory' =
           Append(conversationHistory, Message("user", message, <<>>, 0))
    /\ sent' = conversationHistory'
    /\ trace' = [NewTrace EXCEPT
           !.requests = 1,
           !.payload = convertToolsToOpenAIFormat(tools)]
    /\ pc' = "request"
    /\ sends' = sends + 1
    /\ outcome' = NoOutcome
    /\ UNCHANGED <<provider, response, idx, inFlight, toolResults>>
    /\ UNCHANGED <<tools, appVars, chatVars, callerVars, socketVars>>

\* what a rejected chat.completions.create reports
FailureReasons == {"network", "context too long"}

\* the catch of sendMessage: throw new LLMError(...), whatever the error
OpenAIRequestFails ==
    /\ provider = "openai" /\ pc \in {"request", "followUp"}
    /\ \E reason \in FailureReasons :
        trace' = [trace EXCEPT !.modelFailed = TRUE, !.failure = reason]
    /\ outcome' = Threw
    /\ pc' = "idle"
    /\ response' = <<>> /\ idx' = 1 /\ toolResults' = <<>>
    /\ UNCHANGED <<provider, conversationHistory, inFlight, sends, sent>>
    /\ UNCHANGED <<tools, appVars, chatVars, callerVars, socketVars>>

\* the loop of handleToolCalls from position `from`, with the results so
\* far, up to the next await (a callTool or the follow-up request)
OpenAIRunLoop(tool_calls, from, results, history, tr) ==
    LET calls == OpenAINextCalls(tool_calls, from)
        to    == IF calls = {} THEN Len(tool_calls) ELSE Max(calls)
        errs  == OpenAIParseErrors(tool_calls, from, to)
        res   == results \o errs
        tr2   == [tr EXCEPT !.toolErrors = @ + Len(errs)]
    IN  /\ toolResults' = res
        /\ idx' = to + 1
        /\ inFlight' = calls
        /\ IF calls # {}
           THEN /\ trace' = [tr2 EXCEPT
                       !.gateway = @ \o OpenAIIssue(tool_calls, calls)]
                /\ conversationHistory' = history
                /\ pc' = "tools"
                /\ UNCHANGED sent
           ELSE \* the loop is over: push the results, re-query
                /\ conversationHistory' = history \o res
                /\ sent' = conversationHistory'
                /\ trace' = [tr2 EXCEPT
                       !.requests = @ + 1,
                       !.payload = convertToolsToOpenAIFormat(tools)]
                /\ pc' = "followUp"

OpenAIResponse ==
    /\ provider = "openai" /\ pc = "request"
    /\ \E r \in OpenAIResponses(FreshId) :
        /\ IF ~r.choice
           THEN \* 'No response from OpenAI', rethrown by the catch
                /\ outcome' = Threw
                /\ trace' = [trace EXCEPT !.noText = TRUE]
                /\ pc' = "idle"
                /\ UNCHANGED <<conversationHistory, response, toolResults,
                               inFlight, idx, sent>>
           ELSE IF Len(r.tool_calls) > 0
           THEN /\ response' = r.tool_calls
                /\ OpenAIRunLoop(r.tool_calls, 1, <<>>,
                       Append(conversationHistory,
                              Message("assistant", r.content, r.tool_calls, 0)),
                       [trace EXCEPT
                           !.first = r.tool_calls,
                           !.appended = {r.tool_calls[i].id : i \in 1..Len(r.tool_calls)}])
                /\ UNCHANGED outcome
           ELSE /\ conversationHistory' =
                       Append(conversationHistory,
                              Message("assistant", r.content, <<>>, 0))
                /\ outcome' = Returned(r.content)
                /\ trace' = [trace EXCEPT !.answerFrom = "first",
                                          !.noText = (r.content = <<>>)]
                /\ pc' = "idle"
                /\ UNCHANGED <<response, toolResults, inFlight, idx, sent>>
    /\ UNCHANGED <<provider, sends>>
    /\ UNCHANGED <<tools, appVars, chatVars, callerVars, socketVars>>

OpenAIToolSettles ==
    /\ provider = "openai" /\ pc = "tools"
    /\ \E k \in inFlight, result \in ToolOutcomes :
       LET toolCall == response[k]
           results  == Append(toolResults,
                          ToolMessage(toolCall.id,
                              IF result = "ok" THEN Value ELSE ErrorText))
           pending  == inFlight \ {k}
           tr       == [trace EXCEPT
                           !.toolErrors = IF result = "ok" THEN @ ELSE @ + 1,
                           !.gwFailed = @ \/ result = "fail"]
       IN  IF pending # {}
           THEN /\ toolResults' = results
                /\ inFlight' = pending
                /\ trace' = tr
                /\ UNCHANGED <<conversationHistory, idx, pc, sent>>
           ELSE OpenAIRunLoop(response, idx, results, conversationHistory, tr)
    /\ UNCHANGED <<provider, response, sends, outcome>>
    /\ UNCHANGED <<tools, appVars, chatVars, callerVars, socketVars>>

OpenAIFollowUp ==
    /\ provider = "openai" /\ pc = "followUp"
    /\ \E r \in OpenAIResponses(FreshId) :
        /\ IF ~r.choice \/ r.content = <<>>
           THEN \* 'No follow-up response from OpenAI', rethrown by the catch
                /\ outcome' = Threw
                /\ trace' = [trace EXCEPT !.noText = TRUE]
                /\ UNCHANGED conversationHistory
           ELSE /\ conversationHistory' =
                       Append(conversationHistory,
                              Message("assistant", r.content, <<>>, 0))
                /\ outcome' = Returned(r.content)
                /\ trace' = [trace EXCEPT !.answerFrom = "followUp",
                                          !.answerTools = (Len(r.tool_calls) > 0)]
    /\ pc' = "idle"
    /\ response' = <<>> /\ idx' = 1 /\ toolResults' = <<>>
    /\ UNCHANGED <<provider, inFlight, sends, sent>>
    /\ UNCHANGED <<tools, appVars, chatVars, callerVars, socketVars>>

\* ---------------------------------------------------------- OllamaService
Prose == <<"Sure thing,", "no tools needed.">>

\* {"tool_name":"echo","parameters":{"message":"hi"}}
EchoCall ==
    <<"{", "tool_name:", "echo", ",", "parameters:",
      "{", "message:", "hi", "}", "}">>

\* the same object inside prose
EchoInProse == <<"Let me check.">> \o EchoCall \o <<"One moment.">>

\* the completions the local model may produce
OllamaCompletions ==
    {<<>>,                                                     \* empty
     Prose,
     EchoInProse,
     EchoCall,
     <<"{", "tool_name:", "echo", ",", "parameters:", "hi", "}">>,
     <<"Here:", "{", "message:", "hi", "}">>,                  \* JSON, no call
     <<"{", "tool_name:", "echo", "}">>,                       \* no parameters
     <<"{", "oops", "}">>}                                     \* not JSON

Line(role, content) == [role |-> role, content |-> content]

\* `I'll use the ${toolCall.name} tool to help you.`
UseToolText(toolCall) == <<"I'll use the tool", toolCall.name.v>>
\* `Error executing tool ${toolCall.name}: ${error.message}`
ErrorMessage(toolCall) == <<"Error executing tool", toolCall.name.v>>
Fallback == <<"Tool executed successfully.">>

\* .slice(-10): the messages of the history the prompt repeats
HistoryWindow == 10

LastTurns(history, n) ==
    SubSeq(history, Max({1, Len(history) - n + 1}), Len(history))

\* `${msg.role}: ${msg.content}`
HistoryLine(msg) == <<msg.role, ":">> \o msg.content

\* buildFullPrompt(systemPrompt, userMessage), with this.conversationHistory
\* as it is when sendMessage calls it
buildFullPrompt(systemPrompt, userMessage, history) ==
    LET window == LastTurns(history, HistoryWindow)
        historyText == Join([i \in 1..Len(window) |-> HistoryLine(window[i])], "\n")
    IN  systemPrompt \o <<"\n", "\n">>
        \o historyText \o <<"\n", "\n">>
        \o <<"user", ":">> \o userMessage
        \o <<"\n", "assistant", ":">>

OllamaSendMessage(message) ==
    /\ provider = "ollama" /\ pc = "idle" /\ sends < MaxSends
    /\ conversationHistory' = Append(conversationHistory, Line("user", message))
    /\ sent' = buildFullPrompt(buildSystemPrompt(tools), message,
                             conversationHistory')
    /\ trace' = [NewTrace EXCEPT
           !.requests = 1,
           !.payload = buildSystemPrompt(tools)]
    /\ pc' = "request"
    /\ sends' = sends + 1
    /\ outcome' = NoOutcome
    /\ UNCHANGED <<provider, response, idx, inFlight, toolResults>>
    /\ UNCHANGED <<tools, appVars, chatVars, callerVars, socketVars>>

\* client.post rejects while sendMessage awaits it (lines 277-310)
OllamaRequestFails ==
    /\ provider = "ollama" /\ pc = "request"
    /\ trace' = [trace EXCEPT !.modelFailed = TRUE]
    /\ outcome' = Threw
    /\ pc' = "idle"
    /\ UNCHANGED <<provider, conversationHistory, response, idx, inFlight,
                   toolResults, sends, sent>>
    /\ UNCHANGED <<tools, appVars, chatVars, callerVars, socketVars>>

OllamaResponse ==
    /\ provider = "ollama" /\ pc = "request"
    /\ \E assistantResponse \in OllamaCompletions :
        LET toolCallMatch == extractToolCall(assistantResponse) IN
        IF assistantResponse = <<>>
        THEN \* 'No response from Ollama', rethrown by the catch
             /\ outcome' = Threw
             /\ trace' = [trace EXCEPT !.noText = TRUE]
             /\ pc' = "idle"
             /\ UNCHANGED <<conversationHistory, response, inFlight>>
        ELSE IF toolCallMatch.found
        THEN \* handleToolCall up to the await of callTool
             /\ response' = <<toolCallMatch>>
             /\ inFlight' = {1}
             /\ trace' = [trace EXCEPT
                    !.first = assistantResponse,
                    !.gateway = Append(@,
                        [id |-> 0, name |-> toolCallMatch.name.v,
                         arguments |-> toolCallMatch.parameters])]
             /\ pc' = "tools"
             /\ UNCHANGED <<conversationHistory, outcome>>
        ELSE /\ conversationHistory' =
                    Append(conversationHistory, Line("assistant", assistantResponse))
             /\ outcome' = Returned(assistantResponse)
             /\ trace' = [trace EXCEPT !.first = assistantResponse,
                                       !.answerFrom = "first"]
             /\ pc' = "idle"
             /\ UNCHANGED <<response, inFlight>>
    /\ UNCHANGED <<provider, idx, toolResults, sends, sent>>
    /\ UNCHANGED <<tools, appVars, chatVars, callerVars, socketVars>>

OllamaToolSettles ==
    /\ provider = "ollama" /\ pc = "tools" /\ inFlight = {1}
    /\ inFlight' = {}
    /\ \E result \in ToolOutcomes :
       /\ response' = IF result = "ok" THEN response ELSE <<>>
       /\ IF result = "ok"
          THEN /\ conversationHistory' =
                      Append(conversationHistory,
                             Line("assistant", UseToolText(response[1])))
               /\ trace' = [trace EXCEPT
                      !.requests = @ + 1,
                      !.payload = PlainPreamble]
               /\ pc' = "followUp"
               /\ UNCHANGED outcome
          ELSE \* the catch of handleToolCall
               /\ conversationHistory' =
                      Append(conversationHistory,
                             Line("assistant", ErrorMessage(response[1])))
               /\ outcome' = Returned(ErrorMessage(response[1]))
               /\ trace' = [trace EXCEPT !.toolErrors = @ + 1,
                                         !.gwFailed = @ \/ result = "fail",
                                         !.answerFrom = "catch"]
               /\ pc' = "idle"
    /\ UNCHANGED <<provider, idx, toolResults, sends, sent>>
    /\ UNCHANGED <<tools, appVars, chatVars, callerVars, socketVars>>

\* the follow-up client.post rejects: the catch of handleToolCall takes it
OllamaFollowUpFails ==
    /\ provider = "ollama" /\ pc = "followUp"
    /\ conversationHistory' =
           Append(conversationHistory,
                  Line("assistant", ErrorMessage(response[1])))
    /\ outcome' = Returned(ErrorMessage(response[1]))
    /\ trace' = [trace EXCEPT !.modelFailed = TRUE, !.answerFrom = "catch"]
    /\ pc' = "idle"
    /\ response' = <<>>
    /\ UNCHANGED <<provider, idx, inFlight, toolResults, sends, sent>>
    /\ UNCHANGED <<tools, appVars, chatVars, callerVars, socketVars>>

OllamaFollowUpLoops ==
    /\ provider = "ollama" /\ pc = "followUp"
    /\ \E completion \in OllamaCompletions :
        LET finalResponse == IF completion = <<>> THEN Fallback ELSE completion
            again == extractToolCall(completion)
        IN  IF again.found
            THEN /\ response' = <<again>>
                 /\ inFlight' = {1}
                 /\ trace' = [trace EXCEPT
                        !.gateway = Append(@,
                            [id |-> 0, name |-> again.name.v,
                             arguments |-> again.parameters])]
                 /\ pc' = "tools"
                 /\ UNCHANGED <<conversationHistory, outcome>>
            ELSE /\ conversationHistory' =
                        Append(conversationHistory, Line("assistant", finalResponse))
                 /\ outcome' = Returned(finalResponse)
                 /\ trace' = [trace EXCEPT !.answerFrom = "followUp",
                                           !.noText = (completion = <<>>)]
                 /\ pc' = "idle"
                 /\ response' = <<>>
                 /\ UNCHANGED inFlight
    /\ UNCHANGED <<provider, idx, toolResults, sends, sent>>
    /\ UNCHANGED <<tools, appVars, chatVars, callerVars, socketVars>>

OllamaFollowUpReturnsRaw ==
    /\ provider = "ollama" /\ pc = "followUp"
    /\ \E completion \in OllamaCompletions :
        LET finalResponse == IF completion = <<>> THEN Fallback ELSE completion IN
        /\ conversationHistory' =
               Append(conversationHistory, Line("assistant", finalResponse))
        /\ outcome' = Returned(completion)
        /\ trace' = [trace EXCEPT
               !.answerFrom = "followUp",
               !.answerTools = extractToolCall(completion).found,
               !.noText = (completion = <<>>)]
    /\ pc' = "idle"
    /\ response' = <<>>
    /\ UNCHANGED <<provider, idx, inFlight, toolResults, sends, sent>>
    /\ UNCHANGED <<tools, appVars, chatVars, callerVars, socketVars>>

OllamaFollowUp ==
    /\ provider = "ollama" /\ pc = "followUp"
    /\ \E completion \in OllamaCompletions :
        LET finalResponse == IF completion = <<>> THEN Fallback ELSE completion IN
        /\ conversationHistory' =
               Append(conversationHistory, Line("assistant", finalResponse))
        /\ outcome' = Returned(finalResponse)
        /\ trace' = [trace EXCEPT
               !.answerFrom = "followUp",
               !.answerTools = extractToolCall(completion).found,
               !.noText = (completion = <<>>)]
    /\ pc' = "idle"
    /\ response' = <<>>
    /\ UNCHANGED <<provider, idx, inFlight, toolResults, sends, sent>>
    /\ UNCHANGED <<tools, appVars, chatVars, callerVars, socketVars>>

\* ------------------------------------------------------------ all adapters
clearAnswers(history) ==
    IF history = <<>> THEN <<>> ELSE <<history[1]>>

\* clearHistory(): this.conversationHistory = []
clearHistory(history) == <<>>

\* getConversationHistory(): [...this.conversationHistory]
getConversationHistory(history) == [i \in 1..Len(history) |-> history[i]]

\* what a caller does to an array it holds: it adds an element, removes
\* the last one or reverses the order
Stray ==
    IF provider = "anthropic" THEN Turn("user", <<TextBlock(<<"stray">>)>>)
    ELSE IF provider = "openai" THEN Message("user", <<"stray">>, <<>>, 0)
    ELSE Line("user", <<"stray">>)
Mutations == {"push", "pop", "reverse"}

Mutate(array, mutation) ==
    IF mutation = "push" THEN Append(array, Stray)
    ELSE IF mutation = "pop"
    THEN SubSeq(array, 1, Len(array) - 1)
    ELSE [i \in 1..Len(array) |-> array[Len(array) + 1 - i]]

NoArray  == [taken |-> FALSE, items |-> <<>>]
Taken(a) == [taken |-> TRUE,  items |-> a]

GetConversationHistoryByReference ==
    /\ ~returned.taken
    /\ \E mutation \in Mutations :
        /\ returned' = Taken(Mutate(conversationHistory, mutation))
        /\ conversationHistory' = Mutate(conversationHistory, mutation)
    /\ UNCHANGED <<provider, tools, pc, response, idx, inFlight, toolResults,
                   sends, outcome, sent, trace>>
    /\ UNCHANGED <<appVars, chatVars, socketVars>>

\* a caller takes getConversationHistory(), at any time, and changes the
\* array it was given: the array is a new one, this.conversationHistory
\* is not touched
GetConversationHistory ==
    /\ ~returned.taken
    /\ \E mutation \in Mutations :
        returned' = Taken(Mutate(getConversationHistory(conversationHistory),
                                 mutation))
    /\ UNCHANGED adapterVars
    /\ UNCHANGED <<appVars, chatVars, socketVars>>

\* clearHistory(), from the Clear History button, enabled at any time
ClearHistory ==
    /\ conversationHistory' = clearHistory(conversationHistory)
    /\ UNCHANGED <<provider, pc, response, idx, inFlight, toolResults,
                   sends, outcome, sent, trace>>
    /\ UNCHANGED <<tools, appVars, chatVars, callerVars, socketVars>>

UpdateToolsMerges ==
    /\ \E D \in Descriptors :
        /\ tools # <<D>>
        /\ tools' = Append(tools, D)
    /\ UNCHANGED <<provider, conversationHistory, pc, response, idx, inFlight,
                   toolResults, sends, outcome, sent, trace>>
    /\ UNCHANGED <<appVars, chatVars, callerVars, socketVars>>

\* updateTools(tools) with a one-tool registry, callable at any time
UpdateTools ==
    /\ \E D \in Descriptors :
        /\ tools # <<D>>
        /\ tools' = <<D>>
    /\ UNCHANGED <<provider, conversationHistory, pc, response, idx, inFlight,
                   toolResults, sends, outcome, sent, trace>>
    /\ UNCHANGED <<appVars, chatVars, callerVars, socketVars>>

\* ------------------------------------------------------ LLMServiceFactory
Undefined == "undefined"              \* a property the object does not have
Falsy(v)  == v \in {Undefined, ""}    \* !v of a string or undefined

\* String.prototype.trim on the strings a form field holds
Trim(v) == IF v = " " THEN "" ELSE v

NoConfig  == [provider |-> "none", apiKey |-> Undefined, baseUrl |-> Undefined]
NoService == [provider |-> "none", mcpClient |-> 0, tools |-> <<>>,
              conversationHistory |-> <<>>]

NewServiceSharesHistory(config, mcpTools, client) ==
    [provider |-> config.provider, mcpClient |-> client, tools |-> mcpTools,
     conversationHistory |-> IF client > 1 THEN histories[client - 1] ELSE <<>>]

\* new AnthropicService / OpenAIService / OllamaService(config, tools,
\* mcpClient): the constructors store their arguments and build the SDK or
\* axios client object, without a request; conversationHistory = []
NewService(config, mcpTools, client) ==
    [provider |-> config.provider, mcpClient |-> client, tools |-> mcpTools,
     conversationHistory |-> <<>>]

\* a turn of the history of the adapter made for a client
Entry(client, role) == [owner |-> client, role |-> role]

Thrown(error)    == [threw |-> TRUE,  error |-> error, service |-> NoService]
Created(service) == [threw |-> FALSE, error |-> "",    service |-> service]

createUnchecked(config, mcpTools, client) ==
    IF config.provider \in Providers
    THEN Created(NewService(config, mcpTools, client))
    ELSE Thrown("Unsupported LLM provider")

\* LLMServiceFactory.create(config, tools, mcpClient)
create(config, mcpTools, client) ==
    IF config.provider = "anthropic"
    THEN IF Falsy(config.apiKey)
         THEN Thrown("API key is required for Anthropic")
         ELSE Created(NewService(config, mcpTools, client))
    ELSE IF config.provider = "openai"
    THEN IF Falsy(config.apiKey)
         THEN Thrown("API key is required for OpenAI")
         ELSE Created(NewService(config, mcpTools, client))
    ELSE IF config.provider = "ollama"
    THEN IF Falsy(config.baseUrl)
         THEN Thrown("Base URL is required for Ollama")
         ELSE Created(NewService(config, mcpTools, client))
    ELSE Thrown("Unsupported LLM provider")

\* bookkeeping of one connect attempt, or of one call of the factory
NewAttempt ==
    [net     |-> 0,          \* requests issued to the MCP server or to a model
     error   |-> "none",     \* "configuration", "command" or "connection"
     created |-> FALSE]      \* the factory returned an adapter

\* new HttpMcpClient(), and the client once connect has succeeded
NewClient       == [connected |-> FALSE, tools |-> <<>>, selectedLanguage |-> "en"]
ConnectedClient == [connected |-> TRUE,  tools |-> CatTools, selectedLanguage |-> "en"]

\* the configs the factory is called with
FactoryConfigs ==
    [provider : Providers \cup {"gemini"},
     apiKey   : {Undefined, "", " ", "sk-key"},
     baseUrl  : {Undefined, "", "http://localhost:11434"}]

FactoryInit ==
    /\ connectionStatus = "disconnected"
    /\ mcpClient = 1
    /\ clients \in {<<NewClient>>, <<ConnectedClient>>}
    /\ llmService = NoService
    /\ llmConfig \in FactoryConfigs
    /\ attempt = NewAttempt
    /\ sending = {}
    /\ callState = <<"none">>
    /\ histories = <<<<>>>>
    /\ selectedLanguage = "en"
    /\ refreshing = {}

\* LLMServiceFactory.create(llmConfig, tools, client), called once
FactoryCreate ==
    /\ attempt.error = "none" /\ ~attempt.created
    /\ LET r == create(llmConfig, clients[mcpClient].tools, mcpClient) IN
       /\ llmService' = r.service
       /\ attempt' = [attempt EXCEPT
              !.error = IF r.threw THEN "configuration" ELSE "none",
              !.created = ~r.threw]
    /\ UNCHANGED <<connectionStatus, mcpClient, clients, llmConfig, sending,
                   callState, histories>>
    /\ UNCHANGED <<selectedLanguage, refreshing>>
    /\ UNCHANGED <<adapterVars, chatVars, callerVars, socketVars>>

\* ------------------------------- App, ConnectionManager and HttpMcpClient
FormKeys     == {"", " ", "sk-key"}                \* the API key field
EnvKeys      == {"", "env-key"}                    \* import.meta.env.VITE_*_API_KEY || ''
FormUrls     == {"", "http://localhost:11434"}     \* the base URL field
FormCommands == {"", "dotnet run"}                 \* the server command field
ToolNames    == {"GetCats", "echo"}                \* the name callTool is given

AppInit ==
    /\ connectionStatus = "disconnected"
    /\ mcpClient = 0
    /\ clients = <<>>
    /\ llmService = NoService
    /\ llmConfig = NoConfig
    /\ attempt = NewAttempt
    /\ sending = {}
    /\ callState = <<>>
    /\ histories = <<>>
    /\ selectedLanguage = "en"
    /\ refreshing = {}

\* the Connect button: ConnectionManager.handleConnect, then
\* App.handleConnect up to its first await, and HttpMcpClient.connect up to
\* the fetch of fetchAvailableTools
HandleConnect ==
    /\ connectionStatus \in {"disconnected", "error"}
    /\ Len(clients) < MaxConnects
    /\ \E llmProvider \in Providers, apiKey \in FormKeys, envKey \in EnvKeys,
          baseUrl \in FormUrls, serverCommand \in FormCommands :
        LET effectiveApiKey ==
                IF Trim(apiKey) # "" THEN Trim(apiKey)
                ELSE IF llmProvider = "ollama" THEN "" ELSE envKey
        IN  IF llmProvider # "ollama" /\ Falsy(effectiveApiKey)
            THEN \* alert('Please enter your ... API key ...'); return
                 /\ attempt' = [NewAttempt EXCEPT !.error = "configuration"]
                 /\ UNCHANGED <<connectionStatus, clients, llmConfig, callState,
                                histories>>
            ELSE IF Trim(serverCommand) = ""
            THEN \* alert('Please enter the server command'); return
                 /\ attempt' = [NewAttempt EXCEPT !.error = "command"]
                 /\ UNCHANGED <<connectionStatus, clients, llmConfig, callState,
                                histories>>
            ELSE /\ llmConfig' =
                        [provider |-> llmProvider,
                         apiKey   |-> IF llmProvider # "ollama"
                                      THEN effectiveApiKey ELSE Undefined,
                         baseUrl  |-> IF llmProvider = "ollama"
                                      THEN baseUrl ELSE Undefined]
                 /\ connectionStatus' = "connecting"
                 /\ clients' = Append(clients,
                        [NewClient EXCEPT !.selectedLanguage = selectedLanguage])
                 /\ callState' = Append(callState, "none")
                 /\ histories' = Append(histories, <<>>)
                 /\ attempt' = [NewAttempt EXCEPT !.net = 1]
    /\ UNCHANGED <<mcpClient, llmService, sending>>
    /\ UNCHANGED <<selectedLanguage, refreshing>>
    /\ UNCHANGED <<adapterVars, chatVars, callerVars, socketVars>>

\* the fetch of HttpMcpClient.connect settles and App.handleConnect runs
\* on to its end: setMcpClient, listTools, LLMServiceFactory.create,
\* setLlmService, or the catch
ConnectSettles ==
    /\ connectionStatus = "connecting"
    /\ LET client == Len(clients) IN
       \E ok \in BOOLEAN :
        IF ~ok
        THEN \* McpError 'Failed to connect to MCP server'
             /\ connectionStatus' = "error"
             /\ attempt' = [attempt EXCEPT !.error = "connection"]
             /\ UNCHANGED <<mcpClient, clients, llmService, histories>>
        ELSE LET availableTools ==
                     fetchAvailableTools(clients[client].selectedLanguage)
                 r == create(llmConfig, availableTools, client)
             IN
             /\ clients' = [clients EXCEPT ![client].connected = TRUE,
                                           ![client].tools = availableTools]
             /\ mcpClient' = client
             /\ IF r.threw
                THEN /\ connectionStatus' = "error"
                     /\ attempt' = [attempt EXCEPT !.error = "configuration"]
                     /\ UNCHANGED <<llmService, histories>>
                ELSE /\ llmService' = r.service
                     /\ histories' = [histories EXCEPT
                            ![client] = r.service.conversationHistory]
                     /\ connectionStatus' = "connected"
                     /\ attempt' = [attempt EXCEPT !.created = TRUE]
    /\ UNCHANGED <<llmConfig, sending, callState>>
    /\ UNCHANGED <<selectedLanguage, refreshing>>
    /\ UNCHANGED <<adapterVars, chatVars, callerVars, socketVars>>

\* the Disconnect button: App.handleDisconnect with HttpMcpClient.disconnect
HandleDisconnect ==
    /\ connectionStatus = "connected"
    /\ IF mcpClient # 0
       THEN /\ clients' = [clients EXCEPT ![mcpClient].connected = FALSE,
                                          ![mcpClient].tools = <<>>]
            /\ mcpClient' = 0
       ELSE UNCHANGED <<clients, mcpClient>>
    /\ llmService' = NoService
    /\ connectionStatus' = "disconnected"
    /\ UNCHANGED <<llmConfig, attempt, sending, callState, histories>>
    /\ UNCHANGED <<selectedLanguage, refreshing>>
    /\ UNCHANGED <<adapterVars, chatVars, callerVars, socketVars>>

\* the language select: App.handleLanguageChange with
\* HttpMcpClient.setLanguage up to the fetch of fetchAvailableTools
HandleLanguageChange ==
    /\ \E language \in Languages \ {selectedLanguage} :
        /\ selectedLanguage' = language
        /\ IF mcpClient # 0
           THEN /\ clients' = [clients EXCEPT ![mcpClient].selectedLanguage = language]
                /\ refreshing' = IF clients[mcpClient].connected
                                 THEN refreshing \cup {mcpClient}
                                 ELSE refreshing
           ELSE UNCHANGED <<clients, refreshing>>
    /\ UNCHANGED <<connectionStatus, mcpClient, llmService, llmConfig, attempt,
                   sending, callState, histories>>
    /\ UNCHANGED <<adapterVars, chatVars, callerVars, socketVars>>

\* the fetch of the fetchAvailableTools started by setLanguage settles:
\* this.tools is assigned a new array, or the error goes to console.error
FetchAvailableToolsSettles ==
    /\ \E client \in refreshing, ok \in BOOLEAN :
        /\ refreshing' = refreshing \ {client}
        /\ clients' = IF ok
                      THEN [clients EXCEPT ![client].tools =
                               fetchAvailableTools(clients[client].selectedLanguage)]
                      ELSE clients
    /\ UNCHANGED <<connectionStatus, mcpClient, llmService, llmConfig, attempt,
                   sending, callState, histories, selectedLanguage>>
    /\ UNCHANGED <<adapterVars, chatVars, callerVars, socketVars>>

\* ChatInterface calls llmService.sendMessage: the adapter pushes the user
\* turn and holds the client it was constructed with until the call ends
SendStarts ==
    /\ connectionStatus = "connected" /\ llmService # NoService
    /\ llmService.mcpClient \notin sending
    /\ Len(histories[llmService.mcpClient]) < 2 * MaxSends
    /\ sending' = sending \cup {llmService.mcpClient}
    /\ histories' = [histories EXCEPT ![llmService.mcpClient] =
           Append(@, Entry(llmService.mcpClient, "user"))]
    /\ UNCHANGED <<connectionStatus, mcpClient, clients, llmService, llmConfig,
                   attempt, callState>>
    /\ UNCHANGED <<selectedLanguage, refreshing>>
    /\ UNCHANGED <<adapterVars, chatVars, callerVars, socketVars>>

\* HttpMcpClient.callTool(name, parameters), called by an adapter whose
\* sendMessage is in flight, up to its first await
CallTool ==
    /\ \E client \in sending, name \in ToolNames :
        /\ callState[client] # "pending"
        /\ callState' = [callState EXCEPT ![client] =
               IF ~clients[client].connected
               THEN "threw"        \* McpError 'Not connected to MCP server'
               ELSE IF name = "GetCats"
               THEN "pending"      \* the fetch of getCats
               ELSE "fail"]        \* 'Unknown tool', caught: {success: false}
    /\ UNCHANGED <<connectionStatus, mcpClient, clients, llmService, llmConfig,
                   attempt, sending, histories>>
    /\ UNCHANGED <<selectedLanguage, refreshing>>
    /\ UNCHANGED <<adapterVars, chatVars, callerVars, socketVars>>

\* the fetch of a tool call settles: {success: true, result} or, from the
\* catch, {success: false, error}
ToolCallSettles ==
    /\ \E client \in 1..Len(callState), result \in {"ok", "fail"} :
        /\ callState[client] = "pending"
        /\ callState' = [callState EXCEPT ![client] = result]
    /\ UNCHANGED <<connectionStatus, mcpClient, clients, llmService, llmConfig,
                   attempt, sending, histories>>
    /\ UNCHANGED <<selectedLanguage, refreshing>>
    /\ UNCHANGED <<adapterVars, chatVars, callerVars, socketVars>>

\* the sendMessage of an adapter returns, with the assistant turn pushed,
\* or throws
SendEnds ==
    /\ \E client \in sending, returns \in BOOLEAN :
        /\ callState[client] # "pending"
        /\ sending' = sending \ {client}
        /\ histories' = IF returns
                         THEN [histories EXCEPT ![client] =
                                  Append(@, Entry(client, "assistant"))]
                         ELSE histories
    /\ UNCHANGED <<connectionStatus, mcpClient, clients, llmService, llmConfig,
                   attempt, callState>>
    /\ UNCHANGED <<selectedLanguage, refreshing>>
    /\ UNCHANGED <<adapterVars, chatVars, callerVars, socketVars>>

\* ----------------------------------------------------------- ChatInterface
Ready == <<"system", "MCP Client ready">>      \* the message of a fresh chat
InputValues == {"", " ", "hi"}

\* state: what the last handleSubmit that was not refused did; at: the
\* placeholder of the pending send; refused: a submit event came while
\* that send was in flight and returned at once
NoSubmit == [state |-> "none", at |-> 0, refused |-> FALSE]

ChatInit ==
    /\ inputValue = ""
    /\ isLoading = FALSE
    /\ messages = <<Ready>>
    /\ submit = NoSubmit
    /\ inFlightSends = 0
    /\ returned = NoArray

\* onChange of the text field, disabled while isLoading
SetInputValue ==
    /\ ~isLoading
    /\ \E v \in InputValues : v # inputValue /\ inputValue' = v
    /\ UNCHANGED <<isLoading, messages, submit, inFlightSends>>
    /\ UNCHANGED <<adapterVars, appVars, callerVars, socketVars>>

HandleSubmitOnlyNeedsService ==
    /\ Len(messages) + 3 <= MaxMessages
    /\ IF llmService = NoService
       THEN /\ submit' = [state |-> "ignored", at |-> 0, refused |-> FALSE]
            /\ UNCHANGED <<inputValue, isLoading, messages, inFlightSends>>
       ELSE /\ messages' = messages \o <<<<"user", Trim(inputValue)>>,
                                         <<"assistant", "">>>>
            /\ inputValue' = ""
            /\ isLoading' = TRUE
            /\ submit' = [state |-> "pending", at |-> Len(messages) + 2,
                          refused |-> FALSE]
            /\ inFlightSends' = inFlightSends + 1
    /\ UNCHANGED <<adapterVars, appVars, callerVars, socketVars>>

\* a submit event of the form, at any time (the Send button is disabled
\* while isLoading or on a blank input): handleSubmit up to the await of
\* llmService.sendMessage
HandleSubmit ==
    /\ Len(messages) + 3 <= MaxMessages
    /\ IF Trim(inputValue) = "" \/ isLoading \/ llmService = NoService
       THEN \* return
            /\ submit' = IF submit.state = "pending"
                         THEN [submit EXCEPT !.refused = TRUE]
                         ELSE [state |-> "ignored", at |-> 0, refused |-> FALSE]
            /\ UNCHANGED <<inputValue, isLoading, messages, inFlightSends>>
       ELSE /\ messages' = messages \o <<<<"user", Trim(inputValue)>>,
                                         <<"assistant", "">>>>
            /\ inputValue' = ""
            /\ isLoading' = TRUE
            /\ submit' = [state |-> "pending", at |-> Len(messages) + 2,
                          refused |-> FALSE]
            /\ inFlightSends' = inFlightSends + 1
    /\ UNCHANGED <<adapterVars, appVars, callerVars, socketVars>>

\* llmService.sendMessage resolves: the placeholder gets the response
SendMessageResolves ==
    /\ submit.state = "pending"
    /\ messages' = [i \in 1..Len(messages) |->
                       IF i = submit.at THEN <<"assistant", "answer">>
                       ELSE messages[i]]
    /\ isLoading' = FALSE
    /\ submit' = [submit EXCEPT !.state = "answered", !.at = 0]
    /\ inFlightSends' = inFlightSends - 1
    /\ UNCHANGED inputValue
    /\ UNCHANGED <<adapterVars, appVars, callerVars, socketVars>>

SendMessageRejectsStaysLoading ==
    /\ submit.state = "pending"
    /\ messages' = Append(messages, <<"system", "Error: LLMError">>)
    /\ submit' = [submit EXCEPT !.state = "error", !.at = 0]
    /\ inFlightSends' = inFlightSends - 1
    /\ UNCHANGED <<inputValue, isLoading>>
    /\ UNCHANGED <<adapterVars, appVars, callerVars, socketVars>>

\* llmService.sendMessage rejects: the catch adds `Error: ${error.message}`,
\* the finally ends the loading state
SendMessageRejects ==
    /\ submit.state = "pending"
    /\ messages' = Append(messages, <<"system", "Error: LLMError">>)
    /\ isLoading' = FALSE
    /\ submit' = [submit EXCEPT !.state = "error", !.at = 0]
    /\ inFlightSends' = inFlightSends - 1
    /\ UNCHANGED inputValue
    /\ UNCHANGED <<adapterVars, appVars, callerVars, socketVars>>

\* the Clear History button of the chat, never disabled
ChatClearHistory ==
    /\ llmService # NoService
    /\ messages # <<Ready>>
    /\ messages' = <<Ready>>
    /\ submit' = IF submit.state = "pending"
                 THEN [submit EXCEPT !.at = 0] ELSE submit
    /\ UNCHANGED <<inputValue, isLoading, inFlightSends>>
    /\ UNCHANGED <<adapterVars, appVars, callerVars, socketVars>>

\* ------------------------------------------------------ WebSocketMcpClient
MaxRequests == 4      \* sendRequest calls of the instance
MaxSockets  == 2      \* WebSocket objects the instance creates

\* what sendRequest leaves behind: the promise it returned, with the
\* socket the message went to, how the promise was settled and by the
\* event of which id, and whether its setTimeout is still to fire
NewRequest(id, method, socket) ==
    [id |-> id, method |-> method, socket |-> socket,
     state |-> "pending", by |-> "none", byId |-> 0, timer |-> TRUE]

NoMessage == [id |-> 0, kind |-> "none", flip |-> FALSE]

\* the messages a server may send: a result or an error with any id (0 is
\* an id no request ever had), or text that is not JSON
ResponseKinds == {"result", "error", "not JSON"}

SocketInit ==
    /\ ws = 0
    /\ sockets = <<>>
    /\ connected = FALSE
    /\ socketTools = <<>>
    /\ messageId = 0
    /\ pendingRequests = {}
    /\ requests = <<>>
    /\ connectPc = "none"
    /\ awaited = 0
    /\ lastMessage = NoMessage

\* !(!this.ws || this.ws.readyState !== WebSocket.OPEN)
SocketIsOpen == ws # 0 /\ sockets[ws] = "OPEN"

SameId(id) == id

\* const id = ++this.messageId
NextId(id) == id + 1

\* request.resolve / request.reject / reject(new Error('Request timeout'))
Settle(reqs, i, state, by, byId) ==
    [reqs EXCEPT ![i].state = state, ![i].by = by, ![i].byId = byId]

\* pendingRequests.delete(id)
Delete(pending, id) == pending \ {id}

\* the caller awaiting request i runs on after the promise settled, with
\* the pending ids and the promises as the settling handler left them:
\* connect() sends tools/list after initialize, ends after tools/list, and
\* throws when the request was rejected; callTool only returns
Resume(i, fulfilled, pending, reqs) ==
    IF awaited # i
    THEN /\ pendingRequests' = pending
         /\ requests' = reqs
         /\ UNCHANGED <<messageId, connected, socketTools, connectPc, awaited>>
    ELSE IF ~fulfilled \/ (connectPc = "initialize" /\ ~SocketIsOpen)
    THEN \* McpError 'Failed to connect to MCP server'
         /\ pendingRequests' = pending
         /\ requests' = reqs
         /\ connectPc' = "none"
         /\ awaited' = 0
         /\ UNCHANGED <<messageId, connected, socketTools>>
    ELSE IF connectPc = "initialize"
    THEN /\ messageId' = NextId(messageId)
         /\ pendingRequests' = pending \cup {messageId'}
         /\ requests' = Append(reqs, NewRequest(messageId', "tools/list", ws))
         /\ connectPc' = "tools/list"
         /\ awaited' = Len(requests')
         /\ UNCHANGED <<connected, socketTools>>
    ELSE /\ pendingRequests' = pending
         /\ requests' = reqs
         /\ socketTools' = CatTools
         /\ connected' = TRUE
         /\ connectPc' = "none"
         /\ awaited' = 0
         /\ UNCHANGED messageId

\* connect(serverConfig) up to the await of connectWebSocket
WsConnect ==
    /\ connectPc = "none"
    /\ Len(sockets) < MaxSockets
    /\ messageId + 2 <= MaxRequests
    /\ sockets' = Append(sockets, "CONNECTING")
    /\ ws' = Len(sockets')
    /\ connectPc' = "socket"
    /\ UNCHANGED <<connected, socketTools, messageId, pendingRequests, requests,
                   awaited, lastMessage>>
    /\ UNCHANGED <<adapterVars, appVars, chatVars, callerVars>>

\* onopen of a socket: connectWebSocket resolves and connect() runs on to
\* the await of sendRequest('initialize')
WsOnOpen ==
    /\ \E s \in 1..Len(sockets) :
        /\ sockets[s] = "CONNECTING"
        /\ sockets' = [sockets EXCEPT ![s] = "OPEN"]
        /\ IF connectPc = "socket" /\ ws = s
           THEN /\ messageId' = NextId(messageId)
                /\ pendingRequests' = pendingRequests \cup {messageId'}
                /\ requests' = Append(requests,
                                      NewRequest(messageId', "initialize", ws))
                /\ connectPc' = "initialize"
                /\ awaited' = Len(requests')
           ELSE UNCHANGED <<messageId, pendingRequests, requests, connectPc, awaited>>
    /\ UNCHANGED <<ws, connected, socketTools, lastMessage>>
    /\ UNCHANGED <<adapterVars, appVars, chatVars, callerVars>>

\* onmessage of an open socket, with the caller that awaits the request
WsOnMessage ==
    /\ \E s \in 1..Len(sockets), id \in 0..MaxRequests, kind \in ResponseKinds :
        /\ sockets[s] = "OPEN"
        /\ lastMessage' = [id |-> id, kind |-> kind, flip |-> ~lastMessage.flip]
        /\ IF kind # "not JSON" /\ id \in pendingRequests
           THEN LET i == CHOOSE k \in 1..Len(requests) : requests[k].id = id IN
                Resume(i, kind = "result", Delete(pendingRequests, id),
                       Settle(requests, i,
                              IF kind = "result" THEN "resolved" ELSE "rejected",
                              "response", id))
           ELSE UNCHANGED <<messageId, pendingRequests, requests, connected,
                            socketTools, connectPc, awaited>>
    /\ UNCHANGED <<ws, sockets>>
    /\ UNCHANGED <<adapterVars, appVars, chatVars, callerVars>>

\* the setTimeout callback of request i, with the caller that awaits it
WsTimeout(i) ==
    /\ i \in 1..Len(requests)
    /\ requests[i].timer
    /\ LET id    == requests[i].id
           fired == [requests EXCEPT ![i].timer = FALSE]
       IN  IF id \in pendingRequests
           THEN Resume(i, FALSE, Delete(pendingRequests, id),
                       Settle(fired, i, "rejected", "timeout", id))
           ELSE /\ requests' = fired
                /\ UNCHANGED <<messageId, pendingRequests, connected,
                               socketTools, connectPc, awaited>>
    /\ UNCHANGED <<ws, sockets, lastMessage>>
    /\ UNCHANGED <<adapterVars, appVars, chatVars, callerVars>>

\* disconnect()
WsDisconnect ==
    /\ IF ws # 0
       THEN /\ sockets' = [sockets EXCEPT ![ws] =
                              IF @ = "CLOSED" THEN "CLOSED" ELSE "CLOSING"]
            /\ ws' = 0
       ELSE UNCHANGED <<ws, sockets>>
    /\ connected' = FALSE
    /\ socketTools' = <<>>
    /\ pendingRequests' = {}
    /\ UNCHANGED <<messageId, requests, connectPc, awaited, lastMessage>>
    /\ UNCHANGED <<adapterVars, appVars, chatVars, callerVars>>

\* a socket closes, by close() or by the server or the network: onerror
\* rejects connectWebSocket when the socket never opened, onclose runs
WsOnClose ==
    /\ \E s \in 1..Len(sockets) :
        /\ sockets[s] # "CLOSED"
        /\ sockets' = [sockets EXCEPT ![s] = "CLOSED"]
        /\ connectPc' = IF connectPc = "socket" /\ s = Len(sockets)
                        THEN "none" ELSE connectPc
    /\ connected' = FALSE
    /\ UNCHANGED <<ws, socketTools, messageId, pendingRequests, requests,
                   awaited, lastMessage>>
    /\ UNCHANGED <<adapterVars, appVars, chatVars, callerVars>>

\* callTool(name, parameters) up to the await of sendRequest('tools/call');
\* it throws when not connected, sendRequest throws when the socket is
\* not open
WsCallTool ==
    /\ messageId < MaxRequests
    /\ connected /\ SocketIsOpen
    /\ messageId' = NextId(messageId)
    /\ pendingRequests' = pendingRequests \cup {messageId'}
    /\ requests' = Append(requests, NewRequest(messageId', "tools/call", ws))
    /\ UNCHANGED <<ws, sockets, connected, socketTools, connectPc, awaited,
                   lastMessage>>
    /\ UNCHANGED <<adapterVars, appVars, chatVars, callerVars>>

\* ---------------------------------------------------- the specifications
\* the adapter as the factory constructs it, with the tools of the client
Init ==
    /\ provider \in Providers
    /\ conversationHistory = <<>>
    /\ tools = CatTools
    /\ pc = "idle"
    /\ response = <<>>
    /\ idx = 1
    /\ inFlight = {}
    /\ toolResults = <<>>
    /\ sends = 0
    /\ outcome = NoOutcome
    /\ sent = <<>>
    /\ trace = NewTrace
    /\ AppInit
    /\ ChatInit
    /\ SocketInit

Next ==
    \/ AnthropicSendMessage(Question)
    \/ AnthropicRequestFails
    \/ AnthropicResponse
    \/ AnthropicToolSettles
    \/ AnthropicFollowUp
    \/ OpenAISendMessage(Question)
    \/ OpenAIRequestFails
    \/ OpenAIResponse
    \/ OpenAIToolSettles
    \/ OpenAIFollowUp
    \/ OllamaSendMessage(Question)
    \/ OllamaRequestFails
    \/ OllamaResponse
    \/ OllamaToolSettles
    \/ OllamaFollowUpFails
    \/ OllamaFollowUp
    \/ ClearHistory
    \/ UpdateTools

Spec == Init /\ [][Next]_vars

\* the factory on its own, called with any config
FactorySpecInit ==
    /\ provider = "none"
    /\ conversationHistory = <<>>
    /\ tools = <<>>
    /\ pc = "idle"
    /\ response = <<>>
    /\ idx = 1
    /\ inFlight = {}
    /\ toolResults = <<>>
    /\ sends = 0
    /\ outcome = NoOutcome
    /\ sent = <<>>
    /\ trace = NewTrace
    /\ FactoryInit
    /\ ChatInit
    /\ SocketInit

FactoryNext == FactoryCreate

FactorySpec == FactorySpecInit /\ [][FactoryNext]_vars

\* the App from its mount: connecting, disconnecting, and the tool calls
\* of the adapters it created
AppSpecInit ==
    /\ provider = "none"
    /\ conversationHistory = <<>>
    /\ tools = <<>>
    /\ pc = "idle"
    /\ response = <<>>
    /\ idx = 1
    /\ inFlight = {}
    /\ toolResults = <<>>
    /\ sends = 0
    /\ outcome = NoOutcome
    /\ sent = <<>>
    /\ trace = NewTrace
    /\ AppInit
    /\ ChatInit
    /\ SocketInit

AppNext ==
    \/ HandleConnect
    \/ ConnectSettles
    \/ HandleDisconnect
    \/ SendStarts
    \/ CallTool
    \/ ToolCallSettles
    \/ SendEnds

AppSpec == AppSpecInit /\ [][AppNext]_vars

\* the App with its language select: connecting, disconnecting and
\* changing the language
LanguageNext ==
    \/ HandleConnect
    \/ ConnectSettles
    \/ HandleDisconnect
    \/ HandleLanguageChange
    \/ FetchAvailableToolsSettles

LanguageSpec == AppSpecInit /\ [][LanguageNext]_vars

\* ChatInterface mounted with its llmService prop (LLMServiceInterface | null)
ChatSpecInit ==
    /\ provider = "none"
    /\ conversationHistory = <<>>
    /\ tools = <<>>
    /\ pc = "idle"
    /\ response = <<>>
    /\ idx = 1
    /\ inFlight = {}
    /\ toolResults = <<>>
    /\ sends = 0
    /\ outcome = NoOutcome
    /\ sent = <<>>
    /\ trace = NewTrace
    /\ connectionStatus = "connected"
    /\ mcpClient = 1
    /\ clients = <<ConnectedClient>>
    /\ llmService \in {NoService}
           \cup {NewService([NoConfig EXCEPT !.provider = p], CatTools, 1) :
                   p \in Providers}
    /\ llmConfig = NoConfig
    /\ attempt = NewAttempt
    /\ sending = {}
    /\ callState = <<"none">>
    /\ histories = <<<<>>>>
    /\ selectedLanguage = "en"
    /\ refreshing = {}
    /\ ChatInit
    /\ SocketInit

ChatNext ==
    \/ SetInputValue
    \/ HandleSubmit
    \/ SendMessageResolves
    \/ SendMessageRejects
    \/ ChatClearHistory

ChatSpec == ChatSpecInit /\ [][ChatNext]_vars

\* the sendMessage calls of the adapters, with a caller that reads the
\* history
HistoryNext ==
    \/ AnthropicSendMessage(Question)
    \/ AnthropicRequestFails
    \/ AnthropicResponse
    \/ AnthropicToolSettles
    \/ AnthropicFollowUp
    \/ OpenAISendMessage(Question)
    \/ OpenAIRequestFails
    \/ OpenAIResponse
    \/ OpenAIToolSettles
    \/ OpenAIFollowUp
    \/ OllamaSendMessage(Question)
    \/ OllamaRequestFails
    \/ OllamaResponse
    \/ OllamaToolSettles
    \/ OllamaFollowUpFails
    \/ OllamaFollowUp
    \/ GetConversationHistory

HistorySpec == Init /\ [][HistoryNext]_vars

\* one WebSocketMcpClient: connect, disconnect, callTool, the events of its
\* sockets and the timers of its requests
SocketNext ==
    \/ WsConnect
    \/ WsOnOpen
    \/ WsOnMessage
    \/ \E i \in 1..MaxRequests : WsTimeout(i)
    \/ WsDisconnect
    \/ WsOnClose
    \/ WsCallTool

SocketSpec == AppSpecInit /\ [][SocketNext]_vars

\* every timer set by setTimeout fires
SocketFairSpec ==
    SocketSpec /\ \A i \in 1..MaxRequests : WF_vars(WsTimeout(i))

\* sendMessage has ended (returned or thrown) and none is running
Completed == pc = "idle" /\ outcome.kind # "none"

\* ----------------------------------------------- reading a transcript
Hosted == provider \in {"anthropic", "openai"}

Count(seq, x) == Cardinality({i \in 1..Len(seq) : seq[i] = x})

IsPrefix(s, t) == Len(s) <= Len(t) /\ \A i \in 1..Len(s) : s[i] = t[i]

BlockIds(content, type) ==
    Concat([j \in 1..Len(content) |->
              IF content[j].type = type THEN <<content[j].id>> ELSE <<>>])

\* ids of the tool-invocation requests of the assistant turns, in order
RequestIds(turns) ==
    IF provider = "anthropic"
    THEN Concat([i \in 1..Len(turns) |->
                   IF turns[i].role = "assistant"
                   THEN BlockIds(turns[i].content, "tool_use") ELSE <<>>])
    ELSE IF provider = "openai"
    THEN Concat([i \in 1..Len(turns) |->
                   IF turns[i].role = "assistant"
                   THEN [j \in 1..Len(turns[i].tool_calls) |-> turns[i].tool_calls[j].id]
                   ELSE <<>>])
    ELSE <<>>

\* ids the tool-result turns answer, in order
ResultIds(turns) ==
    IF provider = "anthropic"
    THEN Concat([i \in 1..Len(turns) |->
                   IF turns[i].role = "user"
                   THEN BlockIds(turns[i].content, "tool_result") ELSE <<>>])
    ELSE IF provider = "openai"
    THEN Concat([i \in 1..Len(turns) |->
                   IF turns[i].role = "tool" THEN <<turns[i].tool_call_id>> ELSE <<>>])
    ELSE <<>>

\* every request of the transcript has exactly one result
Resolved(turns) ==
    \A id \in Range(RequestIds(turns)) : Count(ResultIds(turns), id) = 1

\* the tool calls of the first response that reach the gateway, in the
\* order the model emitted them
EmittedIds ==
    IF provider = "anthropic" THEN BlockIds(trace.first, "tool_use")
    ELSE IF provider = "openai"
    THEN Concat([i \in 1..Len(trace.first) |->
                   IF JSONParse(trace.first[i].arguments).ok
                   THEN <<trace.first[i].id>> ELSE <<>>])
    ELSE <<>>

GatewayIds == [i \in 1..Len(trace.gateway) |-> trace.gateway[i].id]

\* ------------------------------------------------------------- the claims

\* C1: after a sendMessage that returned, every tool-invocation request
\* that call appended to the history has a tool-result turn with its id in
\* the history, for every adapter and whatever the follow-up response holds.
C1_NoOrphanedToolCalls ==
    (Completed /\ outcome.kind = "returned") =>
        \A id \in trace.appended :
            id \in Range(RequestIds(conversationHistory)) =>
                id \in Range(ResultIds(conversationHistory))

\* C2: the text AnthropicService.sendMessage returns is never extracted
\* from a response that still contains tool_use blocks (the tool-use loop
\* repeats until a response has none).
C2_AnswerFromToolFreeResponse ==
    (provider = "anthropic" /\ Completed /\ outcome.kind = "returned") =>
        ~trace.answerTools

\* C3: when the gateway answers {success: false} for a tool call and
\* every model request succeeds with text, sendMessage returns a string,
\* every tool call of the turn that can be executed has been executed and
\* the model has been re-queried, in each adapter.
C3_ToolFailureIsolation ==
    (Completed /\ trace.gwFailed /\ ~trace.modelFailed /\ ~trace.noText) =>
        /\ outcome.kind = "returned"
        /\ Len(trace.gateway) = (IF Hosted THEN Len(EmittedIds) ELSE 1)
        /\ trace.requests = 2

\* C4: in OllamaService a completion holding the object
\* {"tool_name":"echo","parameters":{"message":"hi"}}, alone or inside
\* prose, leads to exactly one gateway call, with name "echo" and the
\* arguments {message: "hi"}.
C4_NestedToolCallDetected ==
    (provider = "ollama" /\ Completed /\ trace.first \in {EchoInProse, EchoCall}) =>
        /\ Len(trace.gateway) = 1
        /\ trace.gateway[1].name = "echo"
        /\ trace.gateway[1].arguments = EchoInput

ToolUseCount == Len(BlockIds(trace.first, "tool_use"))

\* C5: in AnthropicService a first response with n tool_use blocks leads
\* to exactly n gateway invocations and exactly one re-query: never more
\* than n invocations or two requests, and exactly n and two once the
\* follow-up request is out.
C5_OneRequeryPerBatch ==
    (provider = "anthropic" /\ pc # "request") =>
        /\ Len(trace.gateway) <= ToolUseCount
        /\ trace.requests <= 2
        /\ (ToolUseCount > 0 /\ (pc = "followUp" \/ Completed)) =>
               (Len(trace.gateway) = ToolUseCount /\ trace.requests = 2)

C5_Witness ==
    /\ provider = "anthropic" /\ Completed /\ outcome.kind = "returned"
    /\ ToolUseCount = 2
    /\ Len(trace.gateway) = 2
    /\ trace.requests = 2

\* C6: in the hosted adapters the tool invocations of one assistant turn
\* reach the gateway in the order the model emitted them and never
\* overlap: at most one is pending, and when one is issued every earlier
\* one has settled and left its result.
C6_SequentialInOrder ==
    Hosted =>
        /\ Cardinality(inFlight) <= 1
        /\ IsPrefix(GatewayIds, EmittedIds)
        /\ \A i \in 1..Len(GatewayIds) :
               (i < Len(GatewayIds) \/ inFlight = {}) =>
                   (pc = "tools" => GatewayIds[i] \in Range(ResultIds(
                        IF provider = "anthropic"
                        THEN <<Turn("user", toolResults)>> ELSE toolResults)))

C6_Witness ==
    /\ Hosted /\ pc = "tools"
    /\ Len(trace.gateway) = 2
    /\ Cardinality(inFlight) = 1
    /\ trace.toolErrors = 1

\* C7: in every transcript a hosted adapter sends to the model, each
\* tool-invocation request is resolved by exactly one tool result with
\* its id.
C7_SentTranscriptsResolved ==
    Hosted => Resolved(sent)

\* C8: in every adapter a per-tool-call error is fed back to the model in
\* a further model request, and the answer sendMessage returns is the
\* model's reply to it.
C8_ToolErrorFedBack ==
    (Completed /\ trace.toolErrors > 0) =>
        /\ trace.requests = 2
        /\ outcome.kind = "returned" => trace.answerFrom = "followUp"

\* C9: in every adapter a failed model request, the follow-up request
\* included, makes sendMessage throw; it never returns a string and
\* stores no assistant answer for it.
C9_ModelFailurePropagates ==
    (Completed /\ trace.modelFailed) => outcome.kind = "threw"

\* C10: the step in which a model request fails leaves the history as it
\* is, and the next sendMessage appends its user turn after the retained
\* turns.
C10_FailureKeepsHistory ==
    [][/\ (trace'.modelFailed /\ ~trace.modelFailed) =>
              conversationHistory' = conversationHistory
       /\ (sends' = sends + 1) =>
              /\ Len(conversationHistory') = Len(conversationHistory) + 1
              /\ SubSeq(conversationHistory', 1, Len(conversationHistory))
                     = conversationHistory]_vars

\* C11: in every adapter a model response with an unexpected or empty
\* body (no choice or message, an empty completion, an empty follow-up
\* content) is an empty-answer case: sendMessage returns a string, it does
\* not throw.
C11_EmptyResponseIsAnswer ==
    (Completed /\ trace.noText /\ ~trace.modelFailed) =>
        outcome.kind = "returned"

\* C12: HttpMcpClient.callTool never throws and never rejects: whatever
\* state the client is in (connected, disconnected), a call ends with a
\* value {success, result?, error?}.
C12_CallToolNeverThrows ==
    \A client \in 1..Len(callState) : callState[client] # "threw"

\* C13: a send issued in a ChatInterface whose llmService is null ends
\* with an error shown to the user; it is never dropped silently.
C13_SendWithoutAdapterFails ==
    (llmService = NoService /\ submit.state # "none") =>
        submit.state = "error"

\* the mandatory field of the selected provider is empty or missing
MissingMandatory(config) ==
    \/ config.provider \in {"anthropic", "openai"}
         /\ config.apiKey \in {Undefined, ""}
    \/ config.provider = "ollama" /\ config.baseUrl \in {Undefined, ""}

\* create has been called
FactoryCalled == attempt.created \/ attempt.error # "none"

\* C14: LLMServiceFactory.create issues no request, and called with the
\* mandatory field of the provider empty or missing (apiKey for anthropic
\* and openai, baseUrl for ollama) it throws a configuration error and
\* constructs no adapter.
C14_FactoryValidatesFirst ==
    FactoryCalled =>
        /\ attempt.net = 0
        /\ MissingMandatory(llmConfig) =>
               /\ attempt.error = "configuration"
               /\ ~attempt.created
               /\ llmService = NoService

C14_Witness ==
    /\ FactoryCalled
    /\ llmConfig.provider = "openai" /\ llmConfig.apiKey = ""
    /\ attempt.error = "configuration"
    /\ llmService = NoService

\* C15: when a connect attempt reports a configuration error (missing
\* credential of a hosted provider, missing base address of the local
\* provider), the attempt has issued no request to the MCP server or to a
\* model.
C15_ConfigErrorBeforeNetwork ==
    attempt.error = "configuration" => attempt.net = 0

\* the <<name, description>> pairs of a registry, and those a request's
\* tool-description payload carries
Registered(mcpTools) ==
    {<<mcpTools[i].name, mcpTools[i].description>> : i \in 1..Len(mcpTools)}

Described(payload) ==
    IF provider = "anthropic"
    THEN {<<payload[i].name, payload[i].description>> : i \in 1..Len(payload)}
    ELSE IF provider = "openai"
    THEN {<<payload[i].function.name, payload[i].function.description>> :
            i \in 1..Len(payload)}
    ELSE {<<payload[i + 1], payload[i + 3]>> :
            i \in {j \in 1..Len(payload) - 3 : payload[j] = "-"}}

\* this step issues a model request
RequestIssued == sends' = sends + 1 \/ trace'.requests = trace.requests + 1

\* updateTools replaces the registry by the one-descriptor registry given
ReplacedNotMerged == tools' # tools => \E D \in Descriptors : tools' = <<D>>

\* C16 as stated: every model request of every adapter carries the name
\* and description of exactly the descriptors of the current registry,
\* the one the last updateTools([D]) installed, and updateTools replaces
\* the registry.
C16_EveryRequestCarriesRegistry ==
    [][/\ RequestIssued => Described(trace'.payload) = Registered(tools')
       /\ ReplacedNotMerged]_vars

\* C16 amended: every model request of the hosted adapters and the first
\* completion request of the Free-Text adapter carry the name and
\* description of exactly the descriptors of the current registry; the
\* follow-up completion request of the Free-Text adapter carries no tool
\* description; updateTools replaces the registry.
C16_RequestsCarryRegistry ==
    [][/\ RequestIssued =>
              IF provider = "ollama" /\ trace'.requests = 2
              THEN Described(trace'.payload) = {}
              ELSE Described(trace'.payload) = Registered(tools')
       /\ ReplacedNotMerged]_vars

C16_Witness ==
    /\ tools = <<EchoTool>>
    /\ pc = "followUp" /\ trace.requests = 2
    /\ Hosted
    /\ Described(trace.payload) = {<<"echo", "Echo a message">>}

\* C17: in every adapter and after any number of completed or failed
\* sendMessage calls, clearHistory() leaves getConversationHistory()
\* empty, and a second clearHistory() changes nothing.
C17_ClearHistoryEmpties ==
    [][ClearHistory =>
          /\ getConversationHistory(conversationHistory') = <<>>
          /\ clearHistory(conversationHistory') = conversationHistory']_vars

C17_Witness ==
    /\ sends >= 2 /\ Completed /\ outcome.kind = "threw"
    /\ getConversationHistory(conversationHistory) = <<>>

\* no "{" of the text has a "}" after it
NoJsonShape(text) ==
    ~\E i, j \in 1..Len(text) : i < j /\ text[i] = "{" /\ text[j] = "}"

\* C18: in OllamaService a completion with no JSON-object-shaped
\* substring is returned unchanged, with no gateway call and exactly one
\* completion request.
C18_ProseReturnedUnchanged ==
    (provider = "ollama" /\ Completed /\ trace.first # <<>>
        /\ NoJsonShape(trace.first)) =>
        /\ outcome = Returned(trace.first)
        /\ trace.gateway = <<>>
        /\ trace.requests = 1

C18_Witness ==
    /\ provider = "ollama" /\ Completed
    /\ trace.first = Prose
    /\ outcome = Returned(Prose)

\* the first JSON-object-shaped substring of a text: from its first "{"
\* to the "}" that closes it, <<>> if there is none
Depth(text, from, to) ==
    Cardinality({k \in from..to : text[k] = "{"})
        - Cardinality({k \in from..to : text[k] = "}"})

FirstObjectText(text) ==
    LET opens == {i \in 1..Len(text) : text[i] = "{"}
    IN  IF opens = {} THEN <<>>
        ELSE LET i      == Min(opens)
                 closes == {j \in i + 1..Len(text) : Depth(text, i, j) = 0}
             IN  IF closes = {} THEN <<>>
                 ELSE SubSeq(text, i, Min(closes))

\* it does not parse, or parses without a tool name or without parameters
NotAToolCall(text) ==
    LET parsed == JSONParse(FirstObjectText(text))
    IN  /\ FirstObjectText(text) # <<>>
        /\ \/ ~parsed.ok
           \/ ~HasKey(parsed.val, "tool_name:")
           \/ ~HasKey(parsed.val, "parameters:")

\* C19: in OllamaService a completion whose first JSON-object-shaped
\* substring does not parse, or parses without a tool-name field or
\* without a parameters field, is returned whole and verbatim, with no
\* error and no gateway call.
C19_FalsePositiveFallsThrough ==
    (provider = "ollama" /\ Completed /\ trace.first # <<>>
        /\ NotAToolCall(trace.first)) =>
        /\ outcome = Returned(trace.first)
        /\ trace.gateway = <<>>

C19_Witness ==
    /\ provider = "ollama" /\ Completed
    /\ trace.first = <<"{", "tool_name:", "echo", "}">>
    /\ outcome = Returned(trace.first)
    /\ trace.gateway = <<>>

\* C20: one sendMessage of OllamaService makes at most one gateway call
\* and at most two completion requests, also when the second completion
\* holds a tool call.
C20_FreeTextNeverLoops ==
    provider = "ollama" =>
        /\ Len(trace.gateway) <= 1
        /\ trace.requests <= 2

C20_Witness ==
    /\ provider = "ollama" /\ Completed
    /\ trace.answerFrom = "followUp" /\ trace.answerTools
    /\ Len(trace.gateway) = 1
    /\ trace.requests = 2

\* ids of the tool calls of the first response whose argument string is
\* not JSON
BadCallIds ==
    {trace.first[i].id :
        i \in {j \in 1..Len(trace.first) : ~JSONParse(trace.first[j].arguments).ok}}

\* positions of the tool messages of a transcript that answer the call id
ResultsFor(turns, id) ==
    {i \in 1..Len(turns) : turns[i].role = "tool" /\ turns[i].tool_call_id = id}

\* C21: in OpenAIService, once the loop over the tool calls of a response
\* is over, a call whose argument string is not JSON has exactly one tool
\* message with its id, an error, in the transcript of the follow-up
\* request and no gateway invocation; every other call of the turn went to
\* the gateway, in order; the follow-up request was sent; and sendMessage
\* returns unless a model request fails or comes back without text.
C21_ParseFailureIsPerCall ==
    (provider = "openai" /\ BadCallIds # {} /\ (pc = "followUp" \/ Completed)) =>
        /\ \A id \in BadCallIds :
              /\ id \notin Range(GatewayIds)
              /\ Cardinality(ResultsFor(sent, id)) = 1
              /\ \A i \in ResultsFor(sent, id) : sent[i].content = ErrorText
        /\ GatewayIds = EmittedIds
        /\ trace.requests = 2
        /\ (Completed /\ ~trace.modelFailed /\ ~trace.noText) =>
               outcome.kind = "returned"

C21_Witness ==
    /\ provider = "openai" /\ Completed /\ outcome.kind = "returned"
    /\ Len(trace.first) = 2
    /\ BadCallIds = {trace.first[1].id}
    /\ GatewayIds = <<trace.first[2].id>>
    /\ trace.requests = 2

\* the last turn of a history
Last(turns) == turns[Len(turns)]

\* C22: in AnthropicService a model response that ends sendMessage, if
\* the request did not fail, makes it return and appends an assistant turn
\* with the content of the response; for a response with no content block
\* the returned text is the empty string.
C22_NoBlocksIsEmptyAnswer ==
    [][(provider = "anthropic" /\ pc \in {"request", "followUp"} /\ pc' = "idle"
          /\ ~trace'.modelFailed) =>
          /\ outcome'.kind = "returned"
          /\ Len(conversationHistory') = Len(conversationHistory) + 1
          /\ Last(conversationHistory').role = "assistant"
          /\ Last(conversationHistory').content = <<>> => outcome'.text = <<>>]_vars

C22_Witness ==
    /\ provider = "anthropic" /\ Completed
    /\ trace.answerFrom = "first"
    /\ outcome = Returned(<<>>)
    /\ conversationHistory # <<>>
    /\ Last(conversationHistory) = Turn("assistant", <<>>)

\* ------------------------------------------------ the context budget
\* The estimate of spec section 4.3 for the transcript and the request of
\* OpenAIService; a length is a number of tokens of the model's texts, or
\* of keys and scalars of a serialized descriptor.
FixedOverheadPerTurn == 1
CallOverhead == 2
ModelCeiling == 16          \* of the model config.model names
ReservedForOutput == 3      \* max_tokens: config.maxTokens || 1000

Ceil3(n) == (n + 2) \div 3

\* estimate of one message of the transcript
TurnEstimate(m) ==
    Ceil3(Len(m.content)) + FixedOverheadPerTurn + CallOverhead * Len(m.tool_calls)

RECURSIVE TranscriptEstimate(_)
TranscriptEstimate(turns) ==
    IF turns = <<>> THEN 0
    ELSE TurnEstimate(Head(turns)) + TranscriptEstimate(Tail(turns))

\* keys and scalars of one element of convertToolsToOpenAIFormat(tools):
\* {type, function: {name, description, parameters: {type, properties:
\* {p: {type, description}}, required}}}
DescriptorLength(tool) ==
    11 + 5 * Len(tool.function.parameters.properties)
       + Len(tool.function.parameters.required)

RECURSIVE DescriptorsLength(_)
DescriptorsLength(payload) ==
    IF payload = <<>> THEN 0
    ELSE DescriptorLength(Head(payload)) + DescriptorsLength(Tail(payload))

ToolDescriptorCost(mcpTools) ==
    Ceil3(DescriptorsLength(convertToolsToOpenAIFormat(mcpTools)))

\* the requests of OpenAIService carry no system message
SystemPreamble == <<>>
SystemPreambleCost == Ceil3(Len(SystemPreamble))

AvailableBudget(mcpTools) ==
    ModelCeiling - ReservedForOutput - ToolDescriptorCost(mcpTools)
        - SystemPreambleCost

\* the last turn of the given role, as a set (empty if there is none)
LastOf(turns, role) ==
    LET at == {i \in 1..Len(turns) : turns[i].role = role}
    IN  IF at = {} THEN {} ELSE {turns[Max(at)]}

\* C26: every request OpenAIService sends while the available budget is
\* positive carries a transcript whose estimate is at most the budget, and
\* the transcript of the first request of a sendMessage ends with the new
\* user message and still holds the last assistant turn of the history.
C26_TrimmedToBudget ==
    [][(provider = "openai" /\ RequestIssued /\ AvailableBudget(tools') > 0) =>
          /\ TranscriptEstimate(sent') <= AvailableBudget(tools')
          /\ (sends' = sends + 1) =>
                /\ Last(sent') = Message("user", Question, <<>>, 0)
                /\ LastOf(conversationHistory, "assistant") \subseteq Range(sent')]_vars

\* C27: a sendMessage of OpenAIService that starts while the available
\* budget is not positive throws at once and issues no model request.
C27_CeilingTooSmallFails ==
    [][(provider = "openai" /\ sends' = sends + 1 /\ AvailableBudget(tools) <= 0) =>
          /\ outcome'.kind = "threw"
          /\ pc' = "idle"
          /\ trace'.requests = 0]_vars

\* C28: when a request of OpenAIService fails with "context too long" for
\* the first time in a sendMessage, the adapter clears the transcript,
\* re-appends the current user message alone and sends one more request
\* instead of throwing.
C28_ContextTooLongRetriesOnce ==
    [][(provider = "openai" /\ trace.failure = "none"
          /\ trace'.failure = "context too long") =>
          /\ conversationHistory' = <<Message("user", Question, <<>>, 0)>>
          /\ sent' = conversationHistory'
          /\ trace'.requests = trace.requests + 1
          /\ outcome'.kind = "none"
          /\ pc' # "idle"]_vars

\* the results appended by the step that issues the follow-up request:
\* the tool messages at the end of the history (openai), the blocks of the
\* last user turn (anthropic)
Batch(turns) ==
    IF provider = "anthropic" THEN Last(turns).content
    ELSE LET n == Len(trace'.first)
         IN  SubSeq(turns, Len(turns) - n + 1, Len(turns))

\* the turn before the batch
TurnBeforeBatch(turns) ==
    IF provider = "anthropic" THEN turns[Len(turns) - 1]
    ELSE turns[Len(turns) - Len(trace'.first)]

\* ids of the tool calls of the first response, in order
CallIds(first) ==
    IF provider = "anthropic" THEN BlockIds(first, "tool_use")
    ELSE [i \in 1..Len(first) |-> first[i].id]

\* C30: in the hosted adapters the step that issues the follow-up request
\* leaves a history that ends with the assistant turn of the n tool calls
\* followed by the batch of their results, and sends it: n results, the
\* k-th with the id of the k-th call, each the serialized value or the
\* error text, as many errors as calls failed, an error marked is_error in
\* AnthropicService.
C30_ResultsBatchFollowsTurn ==
    [][(Hosted /\ pc # "followUp" /\ pc' = "followUp") =>
          LET h     == conversationHistory'
              n     == Len(CallIds(trace'.first))
              lead  == IF provider = "anthropic" THEN 2 ELSE n + 1
          IN  /\ n > 0
              /\ Len(h) >= lead
              /\ sent' = h
              /\ Len(Batch(h)) = n
              /\ IF provider = "anthropic"
                 THEN /\ Last(h).role = "user"
                      /\ BlockIds(Batch(h), "tool_result") = CallIds(trace'.first)
                      /\ \A k \in 1..n :
                            /\ Batch(h)[k].text \in {Value, ErrorText}
                            /\ Batch(h)[k].is_error = (Batch(h)[k].text = ErrorText)
                      /\ Cardinality({k \in 1..n : Batch(h)[k].is_error})
                             = trace'.toolErrors
                      /\ TurnBeforeBatch(h) = Turn("assistant", trace'.first)
                 ELSE /\ \A k \in 1..n :
                            /\ Batch(h)[k].role = "tool"
                            /\ Batch(h)[k].tool_call_id = CallIds(trace'.first)[k]
                            /\ Batch(h)[k].content \in {Value, ErrorText}
                      /\ Cardinality({k \in 1..n : Batch(h)[k].content = ErrorText})
                             = trace'.toolErrors
                      /\ TurnBeforeBatch(h).role = "assistant"
                      /\ TurnBeforeBatch(h).tool_calls = trace'.first]_vars

\* C23: in App the adapter installed by a connect has an empty history
\* and was made for the client of that connect, never an earlier one; a
\* sendMessage starts only on the adapter llmService holds; and no history
\* ever holds a turn of another adapter, also while an earlier adapter
\* still runs a sendMessage.
C23_FreshAdapterOnReplace ==
    [][/\ (llmService' # llmService /\ llmService' # NoService) =>
              /\ histories'[llmService'.mcpClient] = <<>>
              /\ llmService'.mcpClient = Len(clients')
              /\ llmService = NoService
       /\ sending' # sending =>
              sending' \ sending \subseteq {llmService.mcpClient}
       /\ \A client \in 1..Len(histories') :
              \A i \in 1..Len(histories'[client]) :
                  histories'[client][i].owner = client]_vars

C23_Witness ==
    /\ Len(clients) = 2 /\ connectionStatus = "connected"
    /\ llmService.mcpClient = 2
    /\ 1 \in sending
    /\ Len(histories[1]) = 1
    /\ histories[2] = <<Entry(2, "user"), Entry(2, "assistant")>>

\* C24: whatever submit events arrive, ChatInterface has at most one
\* llmService.sendMessage in flight, and while one is in flight the chat
\* is loading.
C24_OneSendInFlight ==
    /\ inFlightSends <= 1
    /\ inFlightSends = 1 => isLoading

C24_Witness ==
    /\ inFlightSends = 1
    /\ submit.state = "pending" /\ submit.refused

\* the error messages the chat shows
ErrorCount(shown) ==
    Cardinality({i \in 1..Len(shown) : shown[i] = <<"system", "Error: LLMError">>})

\* C25: the step in which a sendMessage rejects leaves the adapter in
\* place, ends the loading state and adds exactly one error message; and
\* the next submit of a non-blank input after it reaches sendMessage.
C25_UsableAfterFailure ==
    [][/\ (submit.state = "pending" /\ submit'.state = "error") =>
              /\ llmService' = llmService /\ llmService' # NoService
              /\ isLoading' = FALSE
              /\ inFlightSends' = 0
              /\ ErrorCount(messages') = ErrorCount(messages) + 1
              /\ Len(messages') = Len(messages) + 1
       /\ (submit.state = "error" /\ Trim(inputValue) # "" /\ submit' # submit) =>
              /\ submit'.state = "pending"
              /\ inFlightSends' = 1]_vars

C25_Witness ==
    /\ submit.state = "pending" /\ inFlightSends = 1
    /\ ErrorCount(messages) = 1

\* C29: the step in which a caller takes getConversationHistory() and
\* adds to, removes from or reorders the array it was given changes
\* nothing in the adapter; and whatever the caller did before, the next
\* sendMessage appends the user turn to the history the adapter had and,
\* in the hosted adapters, sends exactly that.
C29_HistoryCopyIsDetached ==
    [][/\ returned' # returned => adapterVars' = adapterVars
       /\ (sends' = sends + 1) =>
              /\ Len(conversationHistory') = Len(conversationHistory) + 1
              /\ SubSeq(conversationHistory', 1, Len(conversationHistory))
                     = conversationHistory
              /\ Stray \notin Range(conversationHistory')
              /\ Hosted => sent' = conversationHistory']_vars

C29_Witness ==
    /\ returned.taken /\ Stray \in Range(returned.items)
    /\ Len(returned.items) >= 3
    /\ sends = 2 /\ pc = "request"
    /\ Len(conversationHistory) >= 3

\* ------------------------------------------- clearHistory during a send
\* every tool-result id of a turn occurs in an assistant turn before it
ResultsFollowCalls(turns) ==
    \A i \in 1..Len(turns) :
        Range(ResultIds(<<turns[i]>>)) \subseteq
            Range(RequestIds(SubSeq(turns, 1, i - 1)))

\* a user turn that carries text and no tool result
UserTextTurn(turn) ==
    /\ turn.role = "user"
    /\ provider = "anthropic" =>
           \A j \in 1..Len(turn.content) : turn.content[j].type = "text"

\* C32: in the hosted adapters, whenever clearHistory() runs, also while a
\* sendMessage is suspended at a model request or a tool call, the history
\* never holds a tool-result turn whose tool-call id is in no assistant
\* turn before it, and every transcript sent to the model starts with a
\* user text turn.
C32_ClearKeepsTranscriptPaired ==
    Hosted =>
        /\ ResultsFollowCalls(conversationHistory)
        /\ sent # <<>> => UserTextTurn(sent[1])

\* user and assistant turns alternate, starting with a user turn
Alternates(turns) ==
    /\ turns # <<>> => turns[1].role = "user"
    /\ \A i \in 1..(Len(turns) - 1) : turns[i].role # turns[i + 1].role

\* C33: every transcript AnthropicService sends to the model, after any
\* sequence of sendMessage calls that returned or failed, starts with a
\* user turn and never holds two consecutive turns of the same role.
C33_SentTurnsAlternate ==
    provider = "anthropic" => Alternates(sent)

\* the user turn sendMessage(message) pushes
UserTurn(message) ==
    IF provider = "anthropic" THEN Turn("user", <<TextBlock(message)>>)
    ELSE IF provider = "openai" THEN Message("user", message, <<>>, 0)
    ELSE Line("user", message)

\* the text of an assistant turn
TurnText(turn) ==
    IF provider = "anthropic" THEN TextOf(turn.content) ELSE turn.content

\* C34: in every adapter the first thing a sendMessage(message) call
\* appends to the history is the user turn carrying the message, and the
\* step in which the call returns appends an assistant turn as the last
\* turn of the history, whose text is exactly the string returned.
C34_ReturnedTextIsLastTurn ==
    [][/\ sends' = sends + 1 =>
              conversationHistory' = Append(conversationHistory, UserTurn(Question))
       /\ (outcome.kind = "none" /\ outcome'.kind = "returned") =>
              /\ Len(conversationHistory') = Len(conversationHistory) + 1
              /\ Last(conversationHistory').role = "assistant"
              /\ TurnText(Last(conversationHistory')) = outcome'.text]_vars

C34_Witness ==
    /\ provider = "ollama" /\ Completed /\ sends = 2
    /\ trace.answerFrom = "followUp"
    /\ outcome = Returned(Fallback)
    /\ Len(conversationHistory) = 5
    /\ conversationHistory[3] = UserTurn(Question)
    /\ Last(conversationHistory) = Line("assistant", Fallback)

\* C31: the prompt of the first completion request of an
\* OllamaService.sendMessage(message) is the system preamble, then at most
\* the last 10 turns the history held before the message, then the line of
\* the new user message, once.
C31_PromptHoldsMessageOnce ==
    [][(provider = "ollama" /\ sends' = sends + 1) =>
          \E k \in 0..Min({HistoryWindow, Len(conversationHistory)}) :
              sent' = buildSystemPrompt(tools) \o <<"\n", "\n">>
                      \o Join([i \in 1..k |->
                                  HistoryLine(LastTurns(conversationHistory, k)[i])],
                              "\n")
                      \o <<"\n", "\n">>
                      \o <<"user", ":">> \o Question
                      \o <<"\n", "assistant", ":">>]_vars

\* C38: in App, after any sequence of connect and disconnect events, the
\* MCP client App holds answers isConnected() with true only while
\* connectionStatus is 'connecting' or 'connected', and llmService is
\* non-null only while connectionStatus is 'connected'.
C38_ErrorLeavesNoClient ==
    /\ (mcpClient # 0 /\ clients[mcpClient].connected) =>
           connectionStatus \in {"connecting", "connected"}
    /\ llmService # NoService => connectionStatus = "connected"

\* C39: while App is connected, the tools the active adapter holds equal
\* the tool list of the MCP client, also after a language change made the
\* client fetch its tools again.
C39_AdapterToolsFollowClient ==
    (connectionStatus = "connected" /\ mcpClient # 0) =>
        llmService.tools = clients[mcpClient].tools

\* ------------------------------------------- WebSocketMcpClient, claims
\* C35: every request sendRequest issued is settled in the end, by a
\* response with its id or by its timeout, also when disconnect() is
\* called or the socket closes while the request is pending.
C35_EveryRequestSettles ==
    \A i \in 1..MaxRequests :
        (Len(requests) >= i /\ requests[i].state = "pending")
            ~> (Len(requests) >= i /\ requests[i].state # "pending")

\* C36: the connected flag of a WebSocketMcpClient goes from true to false
\* only in a disconnect() or when the socket this.ws holds closes; the
\* close event of a socket of an earlier connection does not clear it.
C36_ConnectedUntilCloseOrDisconnect ==
    [][(connected /\ ~connected') =>
          \/ ws' = 0
          \/ ws # 0 /\ sockets[ws] # "CLOSED" /\ sockets'[ws] = "CLOSED"]_vars

\* C37: the ids of the requests of an instance strictly increase in issue
\* order, across reconnects; a settled promise is not settled again; a
\* promise is settled only by the message event carrying its id or by its
\* own timer; and a message event whose id is not pending changes nothing
\* in the instance.
C37_IdsUniqueSettledOnce ==
    [][/\ messageId' >= messageId
       /\ Len(requests') >= Len(requests)
       /\ \A i, j \in 1..Len(requests') :
              i < j => requests'[i].id < requests'[j].id
       /\ \A i \in 1..Len(requests) :
              /\ requests'[i].id = requests[i].id
              /\ requests[i].state # "pending" =>
                     /\ requests'[i].state = requests[i].state
                     /\ requests'[i].by = requests[i].by
                     /\ requests'[i].byId = requests[i].byId
              /\ (requests[i].state = "pending" /\ requests'[i].state # "pending") =>
                     /\ requests'[i].byId = requests[i].id
                     /\ \/ /\ requests'[i].by = "response"
                           /\ lastMessage' # lastMessage
                           /\ lastMessage'.id = requests[i].id
                        \/ /\ requests'[i].by = "timeout"
                           /\ requests[i].timer /\ ~requests'[i].timer
       /\ (lastMessage' # lastMessage /\ lastMessage'.id \notin pendingRequests) =>
              UNCHANGED <<ws, sockets, connected, socketTools, messageId,
                          pendingRequests, requests, connectPc, awaited>>]_vars

C37_Witness ==
    /\ Len(sockets) = 2 /\ sockets[1] = "CLOSED"
    /\ messageId = 4 /\ Len(requests) = 4
    /\ requests[3].socket = 2
    /\ requests[1].by = "response"
    /\ requests[4].by = "timeout"
    /\ lastMessage.id = 1 /\ lastMessage.kind = "result"

====
